---- MODULE Spec2Model ----
(***************************************************************************)
(* Verification model of the portfolio aggregation core:                   *)
(*   - CircuitBreaker            (infrastructure/patterns/CircuitBreaker)  *)
(*   - AssetEntity / AssetReconciliationService / PortfolioAggregate       *)
(*   - PortfolioAggregationService.aggregatePortfolio, refreshPortfolio    *)
(*   - SyncOrchestratorService, the rate limiters                          *)
(*   - InMemoryEventBus, AddressRegistryService                            *)
(*   - LocalStoragePortfolioRepository                                     *)
(* Each component has its own specification (SpecBreaker, SpecPortfolio,   *)
(* SpecValue, SpecMerge, SpecSameAsset, SpecAggregation, SpecRefresh,      *)
(* SpecOverlap, SpecSync, SpecLimiter, SpecBucket, SpecBus, SpecRegistry,  *)
(* SpecStorage) over the shared variables; a specification leaves the      *)
(* other components' variables at their initial values.                    *)
(***************************************************************************)
EXTENDS Integers, Sequences, FiniteSets, TLC

VARIABLES
  now,          \* the clock read by new Date() / Date.now()
  cb,           \* the CircuitBreaker object's private fields
  cbConfig,     \* CircuitBreakerConfig given to the constructor
  cbInflight,   \* execute() calls suspended at `await fn()`
  cbCall,       \* the last call made on the breaker and what it returned
  cbConsec,     \* history: failures recorded since the last success/reset
  cbProbeOk,    \* history: successes recorded since HALF_OPEN was entered
  pfAssets,     \* PortfolioAggregate._assets: a Map in insertion order
  pfSources,    \* PortfolioAggregate._sources
  pfLastUpdated,\* PortfolioAggregate._lastUpdated
  pfCall,       \* the last call made on the portfolio and its outcome
  mgList,       \* the asset list handed to merge / mergeAssets / reconcile
  mgOut,        \* the call last made on mgList and what it returned
  agRepo,       \* InMemoryPortfolioRepository.portfolios
  agHoldings,   \* what each integration's fetchAssets returns
  agConnected,  \* the integrations whose isConnected() is true
  agCall,       \* the aggregatePortfolio call: its position and locals
  agLog,        \* history: who the current call contacted, whether it saved
  agCalls,      \* history: aggregatePortfolio calls started
  syGuard,      \* SyncOrchestratorService.syncInProgress
  syBreakers,   \* SyncOrchestratorService.circuitBreakers, one per integration
  sySlots,      \* history: rate-limit admissions granted, per integration
  syMetrics,    \* SyncOrchestratorService.metrics
  syCycle,      \* the cycle in flight: requested sources, tasks, contacts
  syLast,       \* the orchestrateSync call or settlement seen last
  syCycles,     \* history: sync cycles started
  rlKind,       \* which IRateLimiter implementation the instance is
  rlConfig,     \* RateLimitConfig
  rlTokens,     \* TokenBucketRateLimiter.tokens
  rlElapsed,    \* Date.now() - TokenBucketRateLimiter.lastRefillTime
  rlStamps,     \* SlidingWindowRateLimiter.requestTimestamps, as ages
  rlHist,       \* history: ages of the admissions since the last reset()
  rlWait,       \* callers suspended inside waitForSlot()
  rlLast,       \* the rate limiter call seen last
  rlCalls,      \* history: rate limiter calls made
  cxCall,       \* the aggregatePortfolio calls in flight together: position and locals
  cxSaves,      \* history: the calls whose portfolioRepository.save succeeded, in order
  ebSets,       \* the Set<EventHandler> objects InMemoryEventBus.subscribe has created
  ebHandlers,   \* InMemoryEventBus.handlers: event type to one of the Set objects
  ebGlobal,     \* InMemoryEventBus.globalHandlers, in insertion order
  ebHandles,    \* the unsubscribe functions handed out, with what each closes over
  ebLast,       \* the event bus call seen last and what it did
  arStore,      \* the address repository: the (chain, address) entries it holds
  arEvents,     \* what AddressRegistryService has handed to eventEmitter.emit
  arEmitter,    \* whether the service was constructed with an event emitter
  arCall,       \* the registry call made last: its position, arguments and outcome
  arCalls,      \* history: registry calls made
  lsStorage,    \* localStorage['cygnus_portfolios'] parsed: the saved snapshots
  lsFound,      \* what the last findById returned, and the snapshot it was built from
  rfRequest     \* the refreshPortfolio call made last: its argument and what findById gave it

cbVars == <<cb, cbConfig, cbInflight, cbCall, cbConsec, cbProbeOk>>

pfVars == <<pfAssets, pfSources, pfLastUpdated, pfCall>>

mgVars == <<mgList, mgOut>>

agVars == <<agRepo, agHoldings, agConnected, agCall, agLog, agCalls>>

syVars == <<syGuard, syBreakers, sySlots, syMetrics, syCycle, syLast, syCycles>>

rlVars == <<rlKind, rlConfig, rlTokens, rlElapsed, rlStamps, rlHist, rlWait,
            rlLast, rlCalls>>

cxVars == <<cxCall, cxSaves>>

ebVars == <<ebSets, ebHandlers, ebGlobal, ebHandles, ebLast>>

arVars == <<arStore, arEvents, arEmitter, arCall, arCalls>>

lsVars == <<lsStorage, lsFound>>

rfVars == <<rfRequest>>

vars == <<now, cbVars, pfVars, mgVars, agVars, syVars, rlVars, cxVars,
          ebVars, arVars, lsVars, rfVars>>

\* what each component's actions leave alone
NotBreaker == <<pfVars, mgVars, agVars, syVars, rlVars, cxVars, ebVars,
                arVars, lsVars, rfVars>>
NotPortfolio == <<cbVars, mgVars, agVars, syVars, rlVars, cxVars, ebVars,
                  arVars, lsVars, rfVars>>
NotMerge == <<now, cbVars, pfVars, agVars, syVars, rlVars, cxVars, ebVars,
              arVars, lsVars, rfVars>>
NotAggregation == <<cbVars, pfVars, mgVars, syVars, rlVars, cxVars, ebVars,
                    arVars, lsVars, rfVars>>
NotSync == <<cbVars, pfVars, mgVars, agVars, rlVars, cxVars, ebVars,
             arVars, lsVars, rfVars>>
NotLimiter == <<now, cbVars, pfVars, mgVars, agVars, syVars, cxVars,
                ebVars, arVars, lsVars, rfVars>>
\* the overlapping calls share the repository and the integrations (agVars)
NotOverlap == <<now, cbVars, pfVars, mgVars, syVars, rlVars, ebVars,
                arVars, lsVars, rfVars>>
NotBus == <<now, cbVars, pfVars, mgVars, agVars, syVars, rlVars, cxVars,
            arVars, lsVars, rfVars>>
NotRegistry == <<now, cbVars, pfVars, mgVars, agVars, syVars, rlVars, cxVars, ebVars,
                 lsVars, rfVars>>
\* the repository is driven together with the aggregate it stores (pfVars)
NotStorage == <<cbVars, mgVars, agVars, syVars, rlVars, cxVars, ebVars,
                arVars, rfVars>>
\* refreshPortfolio runs aggregatePortfolio (agVars, now)
NotRefresh == <<cbVars, pfVars, mgVars, syVars, rlVars, cxVars, ebVars,
                arVars, lsVars>>

\* an optional field that holds no value (`undefined`)
Undefined == -1

\* ------------------------------------------------------------------ bounds
MaxTime == 2        \* the clock runs over 0..MaxTime
MaxConfig == 2      \* failureThreshold, halfOpenRetries in 1..MaxConfig
MaxInflight == 2    \* cap of concurrently suspended execute() calls
MaxAmount == 2      \* a provided holding has balance.amount in 1..MaxAmount
MaxTotal == 3       \* cap of the sum of the amounts held by one portfolio
MaxList == 3        \* a reconciled list holds 2..MaxList assets
MaxCalls == 2       \* aggregatePortfolio calls started in one behaviour
MaxCycles == 2      \* sync cycles started in one behaviour
MaxLimiterCalls == 4  \* rate limiter calls made in one behaviour

\* =================================================================
\* CircuitBreaker
\* =================================================================

CircuitState == {"CLOSED", "OPEN", "HALF_OPEN"}

\* the recovery timeouts tried, in clock ticks
RecoveryTimeouts == {1, 2}

\* caps of the (unbounded) failures and successes counters
MaxFailures == MaxConfig + 1
MaxSuccesses == MaxConfig

CircuitBreakerConfig ==
  [failureThreshold : 1..MaxConfig,
   recoveryTimeout  : RecoveryTimeouts,
   halfOpenRetries  : 1..MaxConfig]

\* field initialisers + reset()
CB_new ==
  [state |-> "CLOSED", failures |-> 0, successes |-> 0,
   lastFailureTime |-> Undefined, lastSuccessTime |-> Undefined,
   nextRetryTime |-> Undefined, halfOpenAttempts |-> 0]

\* getState(): OPEN becomes HALF_OPEN once new Date() >= nextRetryTime
Mut_getState_strictlyAfter(b, t) ==
  IF b.state = "OPEN" /\ b.nextRetryTime # Undefined /\ t > b.nextRetryTime
  THEN [b EXCEPT !.state = "HALF_OPEN", !.halfOpenAttempts = 0]
  ELSE b

CB_getState(b, t) ==
  IF b.state = "OPEN" /\ b.nextRetryTime # Undefined /\ t >= b.nextRetryTime
  THEN [b EXCEPT !.state = "HALF_OPEN", !.halfOpenAttempts = 0]
  ELSE b

\* the boolean allowRequest() / the admission check of execute() yields
Verdict(ok) == IF ok THEN "admitted" ELSE "rejected"

\* the boolean allowRequest() returns, on the fields getState() left
CB_admits(b, cfg) ==
  CASE b.state = "CLOSED"    -> TRUE
    [] b.state = "HALF_OPEN" -> b.halfOpenAttempts < cfg.halfOpenRetries
    [] b.state = "OPEN"      -> FALSE
    [] OTHER                 -> FALSE

\* recordSuccess()
Mut_recordSuccess_closesWhenOpen(b, t, cfg) ==
  LET b1 == [b EXCEPT !.successes = @ + 1, !.lastSuccessTime = t] IN
  CASE b1.state \in {"HALF_OPEN", "OPEN"} ->
         LET b2 == [b1 EXCEPT !.halfOpenAttempts = @ + 1] IN
         IF b2.halfOpenAttempts >= cfg.halfOpenRetries
         THEN [b2 EXCEPT !.state = "CLOSED", !.failures = 0,
                         !.halfOpenAttempts = 0]
         ELSE b2
    [] b1.state = "CLOSED" -> [b1 EXCEPT !.failures = 0]
    [] OTHER -> b1

Mut_recordSuccess_keepsFailures(b, t, cfg) ==
  LET b1 == [b EXCEPT !.successes = @ + 1, !.lastSuccessTime = t] IN
  CASE b1.state = "HALF_OPEN" ->
         LET b2 == [b1 EXCEPT !.halfOpenAttempts = @ + 1] IN
         IF b2.halfOpenAttempts >= cfg.halfOpenRetries
         THEN [b2 EXCEPT !.state = "CLOSED", !.halfOpenAttempts = 0]
         ELSE b2
    [] OTHER -> b1

CB_recordSuccess(b, t, cfg) ==
  LET b1 == [b EXCEPT !.successes = @ + 1, !.lastSuccessTime = t] IN
  CASE b1.state = "HALF_OPEN" ->
         LET b2 == [b1 EXCEPT !.halfOpenAttempts = @ + 1] IN
         IF b2.halfOpenAttempts >= cfg.halfOpenRetries
         THEN [b2 EXCEPT !.state = "CLOSED", !.failures = 0,
                         !.halfOpenAttempts = 0]
         ELSE b2
    [] b1.state = "CLOSED" -> [b1 EXCEPT !.failures = 0]
    [] OTHER -> b1

\* recordFailure()
Mut_recordFailure_skippedWhenOpen(b, t, cfg) ==
  IF b.state = "OPEN" THEN b
  ELSE LET b1 == [b EXCEPT !.failures = @ + 1, !.lastFailureTime = t] IN
       CASE b1.state = "CLOSED" ->
              IF b1.failures >= cfg.failureThreshold
              THEN [b1 EXCEPT !.state = "OPEN",
                              !.nextRetryTime = t + cfg.recoveryTimeout]
              ELSE b1
         [] b1.state = "HALF_OPEN" ->
              [b1 EXCEPT !.state = "OPEN",
                         !.nextRetryTime = t + cfg.recoveryTimeout,
                         !.halfOpenAttempts = 0]
         [] OTHER -> b1

Mut_recordFailure_opensOneLate(b, t, cfg) ==
  LET b1 == [b EXCEPT !.failures = @ + 1, !.lastFailureTime = t] IN
  CASE b1.state = "CLOSED" ->
         IF b1.failures > cfg.failureThreshold
         THEN [b1 EXCEPT !.state = "OPEN",
                         !.nextRetryTime = t + cfg.recoveryTimeout]
         ELSE b1
    [] b1.state = "HALF_OPEN" ->
         [b1 EXCEPT !.state = "OPEN",
                    !.nextRetryTime = t + cfg.recoveryTimeout,
                    !.halfOpenAttempts = 0]
    [] OTHER -> b1

Mut_recordFailure_staleRetryTime(b, t, cfg) ==
  LET b1 == [b EXCEPT !.failures = @ + 1, !.lastFailureTime = t] IN
  CASE b1.state = "CLOSED" ->
         IF b1.failures >= cfg.failureThreshold
         THEN [b1 EXCEPT !.state = "OPEN",
                         !.nextRetryTime = t + cfg.recoveryTimeout]
         ELSE b1
    [] b1.state = "HALF_OPEN" ->
         [b1 EXCEPT !.state = "OPEN", !.halfOpenAttempts = 0]
    [] OTHER -> b1

CB_recordFailure(b, t, cfg) ==
  LET b1 == [b EXCEPT !.failures = @ + 1, !.lastFailureTime = t] IN
  CASE b1.state = "CLOSED" ->
         IF b1.failures >= cfg.failureThreshold
         THEN [b1 EXCEPT !.state = "OPEN",
                         !.nextRetryTime = t + cfg.recoveryTimeout]
         ELSE b1
    [] b1.state = "HALF_OPEN" ->
         [b1 EXCEPT !.state = "OPEN",
                    !.nextRetryTime = t + cfg.recoveryTimeout,
                    !.halfOpenAttempts = 0]
    [] OTHER -> b1

\* history kept beside the object: probes admitted in the current HALF_OPEN
\* episode are counted apart from every other suspended execute()
NoInflight == [probes |-> 0, other |-> 0]

InflightAfterInspect(b, b1) ==
  IF b.state = "OPEN" /\ b1.state = "HALF_OPEN"
  THEN [probes |-> 0, other |-> cbInflight.other + cbInflight.probes]
  ELSE cbInflight

ProbeOkAfterInspect(b, b1) ==
  IF b.state = "OPEN" /\ b1.state = "HALF_OPEN" THEN 0 ELSE cbProbeOk

InitBreaker ==
  /\ cb = CB_new
  /\ cbInflight = NoInflight
  /\ cbCall = [op |-> "new", ret |-> "void"]
  /\ cbConsec = 0
  /\ cbProbeOk = 0

\* state inspection: getState()
CBGetState ==
  LET b1 == CB_getState(cb, now) IN
  /\ cb' = b1
  /\ cbCall' = [op |-> "getState", ret |-> b1.state]
  /\ cbInflight' = InflightAfterInspect(cb, b1)
  /\ cbProbeOk' = ProbeOkAfterInspect(cb, b1)
  /\ UNCHANGED <<now, cbConfig, cbConsec>>
  /\ UNCHANGED NotBreaker

\* getStats(): reads the state through getState()
CBGetStats ==
  LET b1 == CB_getState(cb, now) IN
  /\ cb' = b1
  /\ cbCall' = [op |-> "getStats", ret |-> b1.state]
  /\ cbInflight' = InflightAfterInspect(cb, b1)
  /\ cbProbeOk' = ProbeOkAfterInspect(cb, b1)
  /\ UNCHANGED <<now, cbConfig, cbConsec>>
  /\ UNCHANGED NotBreaker

\* allowRequest()
CBAllowRequest ==
  LET b1 == CB_getState(cb, now) IN
  /\ cb' = b1
  /\ cbCall' = [op |-> "allowRequest", ret |-> Verdict(CB_admits(b1, cbConfig))]
  /\ cbInflight' = InflightAfterInspect(cb, b1)
  /\ cbProbeOk' = ProbeOkAfterInspect(cb, b1)
  /\ UNCHANGED <<now, cbConfig, cbConsec>>
  /\ UNCHANGED NotBreaker

\* execute(fn) up to its first suspension: the admission check, then either
\* the throw of `Circuit breaker is ...` or the call of fn() and `await`
CBExecuteStart ==
  LET b1  == CB_getState(cb, now)
      inf == InflightAfterInspect(cb, b1)
      ok  == CB_admits(b1, cbConfig) IN
  /\ inf.probes + inf.other < MaxInflight
  /\ cb' = b1
  /\ cbCall' = [op |-> "execute", ret |-> Verdict(ok)]
  /\ cbInflight' =
       IF ~ok THEN inf
       ELSE IF b1.state = "HALF_OPEN"
            THEN [inf EXCEPT !.probes = @ + 1]
            ELSE [inf EXCEPT !.other = @ + 1]
  /\ cbProbeOk' = ProbeOkAfterInspect(cb, b1)
  /\ UNCHANGED <<now, cbConfig, cbConsec>>
  /\ UNCHANGED NotBreaker

\* recordSuccess(), called directly or by a resumed execute()
SuccessRecorded(op) ==
  /\ cb.successes < MaxSuccesses
  /\ cb' = CB_recordSuccess(cb, now, cbConfig)
  /\ cbCall' = [op |-> op, ret |-> "ok"]
  /\ cbConsec' = 0
  /\ cbProbeOk' = IF cb.state = "HALF_OPEN" THEN cbProbeOk + 1 ELSE cbProbeOk
  /\ UNCHANGED <<now, cbConfig>>
  /\ UNCHANGED NotBreaker

\* recordFailure(), called directly or by a resumed execute()
FailureRecorded(op) ==
  /\ cb.failures < MaxFailures
  /\ cb' = CB_recordFailure(cb, now, cbConfig)
  /\ cbCall' = [op |-> op, ret |-> "error"]
  /\ cbConsec' = cbConsec + 1
  /\ UNCHANGED <<now, cbConfig, cbProbeOk>>
  /\ UNCHANGED NotBreaker

CBRecordSuccess == SuccessRecorded("recordSuccess") /\ UNCHANGED cbInflight

CBRecordFailure == FailureRecorded("recordFailure") /\ UNCHANGED cbInflight

\* execute(fn) resumed: fn() resolved -> recordSuccess(), return result
CBExecuteResolve ==
  \E k \in {"probes", "other"} :
    /\ cbInflight[k] > 0
    /\ cbInflight' = [cbInflight EXCEPT ![k] = @ - 1]
    /\ SuccessRecorded("executeResolved")

\* execute(fn) resumed: fn() rejected -> recordFailure(), rethrow
CBExecuteReject ==
  \E k \in {"probes", "other"} :
    /\ cbInflight[k] > 0
    /\ cbInflight' = [cbInflight EXCEPT ![k] = @ - 1]
    /\ FailureRecorded("executeRejected")

\* reset()
CBReset ==
  /\ cb' = CB_new
  /\ cbCall' = [op |-> "reset", ret |-> "void"]
  /\ cbConsec' = 0
  /\ UNCHANGED <<now, cbConfig, cbInflight, cbProbeOk>>
  /\ UNCHANGED NotBreaker

\* time passes between calls
CBTick ==
  /\ now < MaxTime
  /\ now' = now + 1
  /\ UNCHANGED cbVars
  /\ UNCHANGED NotBreaker

NextBreaker ==
  \/ CBGetState
  \/ CBGetStats
  \/ CBAllowRequest
  \/ CBExecuteStart
  \/ CBRecordSuccess
  \/ CBRecordFailure
  \/ CBExecuteResolve
  \/ CBExecuteReject
  \/ CBReset
  \/ CBTick

InitPortfolioIdle ==
  /\ pfAssets = <<>>
  /\ pfSources = {}
  /\ pfLastUpdated = 0
  /\ pfCall = [op |-> "new", ret |-> "void"]

InitMergeIdle ==
  /\ mgList = <<>>
  /\ mgOut = [op |-> "none", threw |-> FALSE, assets |-> <<>>]

\* options.userId / options.sources left out by the caller (`undefined`)
NoUser == ""
NoSources == <<"undefined">>

\* a portfolio id `portfolio_${userId}` or `portfolio_${Date.now()}`
NoId == [user |-> NoUser, ms |-> Undefined]

NoOptions ==
  [userId |-> NoUser, forceRefresh |-> FALSE, sources |-> NoSources,
   addresses |-> {}]

\* no PortfolioAggregate (`null`)
NoPortfolio ==
  [id |-> NoId, userId |-> NoUser, assets |-> <<>>, sources |-> {},
   lastUpdated |-> Undefined]

\* no aggregatePortfolio call has been made
IdleCall ==
  [phase |-> "idle", via |-> "none", options |-> NoOptions,
   portfolio |-> NoPortfolio, failed |-> {}, fetched |-> <<>>]

NoLog == [providers |-> {}, valuator |-> FALSE, saved |-> FALSE]

InitAggregationIdle ==
  /\ agRepo = {}
  /\ agHoldings = <<>>
  /\ agConnected = {}
  /\ agCall = IdleCall
  /\ agLog = NoLog
  /\ agCalls = 0

\* no SyncResult (no cycle has settled)
NoSyncResult == [successful |-> <<>>, failed |-> <<>>, errors |-> <<>>]

\* no cycle is in flight
NoCycle == [sources |-> <<>>, tasks |-> <<>>, contacted |-> {}]

InitSyncIdle ==
  /\ syGuard = FALSE
  /\ syBreakers = <<>>
  /\ sySlots = <<>>
  /\ syMetrics = <<>>
  /\ syCycle = NoCycle
  /\ syLast = [op |-> "new", ret |-> "void", result |-> NoSyncResult]
  /\ syCycles = 0

\* no caller of a rate limiter
NoCaller == ""

NoLimiterCall == [op |-> "new", ret |-> "void", caller |-> NoCaller, waited |-> FALSE]

InitLimiterIdle ==
  /\ rlKind = "none"
  /\ rlConfig = [requestsPerMinute |-> 0, burstLimit |-> 0]
  /\ rlTokens = 0
  /\ rlElapsed = 0
  /\ rlStamps = <<>>
  /\ rlHist = <<>>
  /\ rlWait = <<>>
  /\ rlLast = NoLimiterCall
  /\ rlCalls = 0

\* the aggregatePortfolio calls that may be in flight together
CallIds == {"first", "second"}

\* a call that has not been made yet
NotCalled ==
  [phase |-> "idle", via |-> "none", options |-> NoOptions,
   portfolio |-> NoPortfolio, failed |-> {}, fetched |-> <<>>,
   reconciled |-> NoPortfolio, valuator |-> "none", save |-> "none",
   events |-> <<>>]

InitOverlapIdle ==
  /\ cxCall = [c \in CallIds |-> NotCalled]
  /\ cxSaves = <<>>

\* the event bus call before any was made
NoBusCall == [op |-> "none"]

InitBus ==
  /\ ebSets = <<>>
  /\ ebHandlers = <<>>
  /\ ebGlobal = <<>>
  /\ ebHandles = <<>>
  /\ ebLast = NoBusCall

InitBusIdle == InitBus

\* the registry call before any was made
NoRegistryCall == [op |-> "none", phase |-> "none"]

InitRegistryIdle ==
  /\ arStore = {}
  /\ arEvents = <<>>
  /\ arEmitter = FALSE
  /\ arCall = NoRegistryCall
  /\ arCalls = 0

\* findById before any call, and findById returning null
NotLoaded == [found |-> FALSE]

InitStorageIdle ==
  /\ lsStorage = <<>>
  /\ lsFound = NotLoaded

\* no refreshPortfolio call has been made
NoRefresh == [call |-> 0, id |-> NoId, existing |-> NoPortfolio]

InitRefreshIdle == rfRequest = NoRefresh

InitSpecBreaker ==
  /\ now = 0
  /\ cbConfig \in CircuitBreakerConfig
  /\ InitBreaker
  /\ InitPortfolioIdle
  /\ InitMergeIdle
  /\ InitAggregationIdle
  /\ InitSyncIdle
  /\ InitLimiterIdle
  /\ InitOverlapIdle
  /\ InitBusIdle
  /\ InitRegistryIdle
  /\ InitStorageIdle
  /\ InitRefreshIdle

SpecBreaker == InitSpecBreaker /\ [][NextBreaker]_vars

\* =================================================================
\* AssetEntity
\* =================================================================

\* a missing chain / contractAddress (`undefined`; '' is falsy alike)
NoChain == "undefined"
NoContract == ""

\* String.prototype.toUpperCase / toLowerCase on the strings that occur
toUpperCase(str) ==
  CASE str = "eth" -> "ETH"
    [] OTHER -> str

toLowerCase(str) ==
  CASE str = "0xAB" -> "0xab"
    [] str = "Polygon" -> "polygon"
    [] str = "0x52908400098527886E0F7030069857D2E4169EE7"
         -> "0x52908400098527886e0f7030069857d2e4169ee7"
    [] str = "4Nd1mBQtrMJVYVfKf2PJy9NZUZdTAsp7D4xWLs4gDB4T"
         -> "4nd1mbqtrmjvyvfkf2pjy9nzuzdtasp7d4xwls4gdb4t"
    [] str = "1A1zP1eP5QGefi2DMPTfTL5SLmv7DivfNa"
         -> "1a1zp1ep5qgefi2dmptftl5slmv7divfna"
    [] OTHER -> str

\* the holdings a provider may report: symbol, type, chain, contractAddress
RawShapes ==
  { [symbol |-> "ETH",  type |-> "crypto", chain |-> "ethereum", contractAddress |-> NoContract],
    [symbol |-> "eth",  type |-> "token",  chain |-> "ethereum", contractAddress |-> NoContract],
    [symbol |-> "USDC", type |-> "token",  chain |-> "ethereum", contractAddress |-> "0xAB"],
    [symbol |-> "USDC", type |-> "token",  chain |-> "ethereum", contractAddress |-> "0xab"],
    [symbol |-> "USDC", type |-> "token",  chain |-> "ethereum", contractAddress |-> NoContract],
    [symbol |-> "USDC", type |-> "token",  chain |-> NoChain,    contractAddress |-> "0xAB"],
    [symbol |-> "USDC", type |-> "token",  chain |-> NoChain,    contractAddress |-> "0xab"] }

AssetIds == {"a", "b"}

\* a missing price (`undefined`), and a Price {value, timestamp}
NoPrice == [value |-> 0, timestamp |-> Undefined]

\* metadata.sourceType / metadata.fetchedAt when the metadata lacks them
NoSourceType == "undefined"

\* shared/types Asset records as providers hand them over.  Of an asset the
\* model keeps id, symbol, type, chain, contractAddress, balance.amount,
\* price and the metadata entries sourceType and fetchedAt; name, imageUrl,
\* balance.decimals/formatted and metadata.mergedFrom are left out.
RawAsset(i, r, n) ==
  [id |-> i, symbol |-> r.symbol, type |-> r.type, chain |-> r.chain,
   contractAddress |-> r.contractAddress, amount |-> n,
   price |-> NoPrice, sourceType |-> NoSourceType, fetchedAt |-> Undefined]

RawAssets ==
  { RawAsset(i, r, n) : i \in AssetIds, r \in RawShapes, n \in 1..MaxAmount }

\* new AssetEntity(params): the symbol is upper-cased
AssetEntity(p) == [p EXCEPT !.symbol = toUpperCase(p.symbol)]

AssetPool == { AssetEntity(p) : p \in RawAssets }

\* the value thrown by merge / mergeAssets on different assets
CannotMerge == [error |-> "Cannot merge different assets"]

\* AssetEntity.isSameAsset(other)
Asset_isSameAsset(this, other) ==
  IF this.contractAddress # NoContract /\ other.contractAddress # NoContract
  THEN this.contractAddress = other.contractAddress /\ this.chain = other.chain
  ELSE /\ this.symbol = other.symbol
       /\ this.type = other.type
       /\ this.chain = other.chain

\* `x || y` on optional fields
OrElse(x, y, none) == IF x # none THEN x ELSE y

\* latestPrice of AssetEntity.merge
Asset_latestPrice(this, other) ==
  IF this.price # NoPrice /\ other.price # NoPrice
  THEN IF this.price.timestamp > other.price.timestamp
       THEN this.price ELSE other.price
  ELSE OrElse(this.price, other.price, NoPrice)

\* AssetEntity.merge(other); metadata is {...other.metadata, ...this._metadata}
Asset_merge(this, other) ==
  IF ~Asset_isSameAsset(this, other) THEN CannotMerge
  ELSE AssetEntity(
         [id |-> this.id, symbol |-> this.symbol, type |-> this.type,
          chain |-> this.chain,
          contractAddress |->
             OrElse(this.contractAddress, other.contractAddress, NoContract),
          amount |-> this.amount + other.amount,
          price |-> Asset_latestPrice(this, other),
          sourceType |-> OrElse(this.sourceType, other.sourceType, NoSourceType),
          fetchedAt |-> OrElse(this.fetchedAt, other.fetchedAt, Undefined)])

\* =================================================================
\* PortfolioAggregate
\* =================================================================

\* a JS Map: a sequence of [key, val] entries in insertion order; the keys
\* are strings, written here as tuples of their ':'-separated parts
MapHas(m, k) == \E i \in 1..Len(m) : m[i].key = k

MapGet(m, k) == m[CHOOSE i \in 1..Len(m) : m[i].key = k].val

MapSet(m, k, v) ==
  IF MapHas(m, k)
  THEN [i \in 1..Len(m) |-> IF m[i].key = k THEN [key |-> k, val |-> v] ELSE m[i]]
  ELSE Append(m, [key |-> k, val |-> v])

MapDelete(m, k) == SelectSeq(m, LAMBDA e : e.key # k)

MapValues(m) == [i \in 1..Len(m) |-> m[i].val]

\* PortfolioAggregate.findSimilarAsset(asset): index of the first match, 0 if none
Portfolio_findSimilarAsset(m, asset) ==
  IF \E i \in 1..Len(m) : Asset_isSameAsset(m[i].val, asset)
  THEN CHOOSE i \in 1..Len(m) :
         /\ Asset_isSameAsset(m[i].val, asset)
         /\ \A j \in 1..(i - 1) : ~Asset_isSameAsset(m[j].val, asset)
  ELSE 0

\* PortfolioAggregate.addAsset(asset), on _assets
Portfolio_addAsset(m, asset) ==
  LET i == Portfolio_findSimilarAsset(m, asset) IN
  IF i # 0
  THEN LET merged == Asset_merge(m[i].val, asset) IN
       MapSet(m, <<merged.id>>, merged)
  ELSE MapSet(m, <<asset.id>>, asset)

\* PortfolioAggregate.getAssetKey(asset)
Portfolio_getAssetKey(asset) ==
  IF asset.contractAddress # NoContract /\ asset.chain # NoChain
  THEN <<asset.chain, asset.contractAddress>>
  ELSE <<IF asset.chain # NoChain THEN asset.chain ELSE "global",
         asset.symbol, asset.type>>

\* the loop of PortfolioAggregate.reconcile(): the new Map, and whether a
\* merge threw before the loop ended
RECURSIVE ReconcileLoop(_, _)
ReconcileLoop(values, reconciled) ==
  IF values = <<>> THEN [threw |-> FALSE, assets |-> reconciled]
  ELSE LET asset == Head(values)
           key   == Portfolio_getAssetKey(asset) IN
       IF MapHas(reconciled, key)
       THEN LET merged == Asset_merge(MapGet(reconciled, key), asset) IN
            IF merged = CannotMerge THEN [threw |-> TRUE, assets |-> <<>>]
            ELSE ReconcileLoop(Tail(values), MapSet(reconciled, key, merged))
       ELSE ReconcileLoop(Tail(values), MapSet(reconciled, key, asset))

Portfolio_reconcile(m) == ReconcileLoop(MapValues(m), <<>>)

\* the addAsset loop of mergePortfolio(other) and of the constructor
RECURSIVE AddAll(_, _)
AddAll(m, assets) ==
  IF assets = <<>> THEN m
  ELSE AddAll(Portfolio_addAsset(m, Head(assets)), Tail(assets))

RECURSIVE SumAmounts(_)
SumAmounts(values) ==
  IF values = <<>> THEN 0 ELSE Head(values).amount + SumAmounts(Tail(values))

HeldTotal(m) == SumAmounts(MapValues(m))

\* the IntegrationSource values of the two registered integrations
\* (robinhood is left out)
IntegrationSource == {"evm", "solana"}

\* addAsset(asset)
PFAddAsset ==
  \E asset \in AssetPool :
    /\ HeldTotal(pfAssets) + asset.amount <= MaxTotal
    /\ pfAssets' = Portfolio_addAsset(pfAssets, asset)
    /\ pfLastUpdated' = now
    /\ pfCall' = [op |-> "addAsset",
                  ret |-> IF Portfolio_findSimilarAsset(pfAssets, asset) # 0
                          THEN "merged" ELSE "inserted"]
    /\ UNCHANGED <<now, pfSources, NotPortfolio>>

\* removeAsset(assetId)
PFRemoveAsset ==
  \E id \in AssetIds :
    /\ pfAssets' = MapDelete(pfAssets, <<id>>)
    /\ pfLastUpdated' = IF MapHas(pfAssets, <<id>>) THEN now ELSE pfLastUpdated
    /\ pfCall' = [op |-> "removeAsset",
                  ret |-> IF MapHas(pfAssets, <<id>>) THEN "deleted" ELSE "absent"]
    /\ UNCHANGED <<now, pfSources, NotPortfolio>>

\* addSource(source)
PFAddSource ==
  \E source \in IntegrationSource :
    /\ pfSources' = pfSources \cup {source}
    /\ pfLastUpdated' = now
    /\ pfCall' = [op |-> "addSource", ret |-> "void"]
    /\ UNCHANGED <<now, pfAssets, NotPortfolio>>

\* reconcile(): a merge that throws leaves the object as it was
PFReconcile ==
  LET r == Portfolio_reconcile(pfAssets) IN
  IF r.threw
  THEN /\ pfCall' = [op |-> "reconcile", ret |-> "threw"]
       /\ UNCHANGED <<now, pfAssets, pfSources, pfLastUpdated, NotPortfolio>>
  ELSE /\ pfAssets' = r.assets
       /\ pfLastUpdated' = now
       /\ pfCall' = [op |-> "reconcile", ret |-> "void"]
       /\ UNCHANGED <<now, pfSources, NotPortfolio>>

\* the portfolios handed to mergePortfolio: built by the constructor from at
\* most one asset and at most one source
OtherPortfolios ==
  { [assets |-> AddAll(<<>>, as), sources |-> src] :
      as \in {<<>>} \cup { <<a>> : a \in AssetPool },
      src \in { ss \in SUBSET IntegrationSource : Cardinality(ss) <= 1 } }

\* mergePortfolio(other)
PFMergePortfolio ==
  \E other \in OtherPortfolios :
    /\ HeldTotal(pfAssets) + HeldTotal(other.assets) <= MaxTotal
    /\ pfAssets' = AddAll(pfAssets, MapValues(other.assets))
    /\ pfSources' = pfSources \cup other.sources
    /\ pfLastUpdated' = now
    /\ pfCall' = [op |-> "mergePortfolio", ret |-> "void"]
    /\ UNCHANGED <<now, NotPortfolio>>

\* clear()
PFClear ==
  /\ pfAssets' = <<>>
  /\ pfSources' = {}
  /\ pfLastUpdated' = now
  /\ pfCall' = [op |-> "clear", ret |-> "void"]
  /\ UNCHANGED <<now, NotPortfolio>>

NextPortfolio ==
  \/ PFAddAsset
  \/ PFRemoveAsset
  \/ PFAddSource
  \/ PFReconcile
  \/ PFMergePortfolio
  \/ PFClear

InitBreakerIdle ==
  /\ cbConfig = [failureThreshold |-> 1, recoveryTimeout |-> 1, halfOpenRetries |-> 1]
  /\ InitBreaker

InitSpecPortfolio ==
  /\ now = 0
  /\ InitBreakerIdle
  /\ InitPortfolioIdle
  /\ InitMergeIdle
  /\ InitAggregationIdle
  /\ InitSyncIdle
  /\ InitLimiterIdle
  /\ InitOverlapIdle
  /\ InitBusIdle
  /\ InitRegistryIdle
  /\ InitStorageIdle
  /\ InitRefreshIdle

SpecPortfolio == InitSpecPortfolio /\ [][NextPortfolio]_vars

(***************************************************************************)
(* Money, AssetEntity.getValue and PortfolioAggregate.getTotalValue.       *)
(* Here a price carries its currency beside value and timestamp.           *)
(***************************************************************************)

\* what the Money constructor throws
MoneyError == [error |-> "Money"]

\* getValue() of an asset without a price
NoValue == [amount |-> 0, currency |-> "null"]

\* new Money(amount, currency)
Money_new(amount, currency) ==
  IF amount < 0 \/ currency = "" \/ Len(currency) # 3 THEN MoneyError
  ELSE [amount |-> amount, currency |-> toUpperCase(currency)]

\* AssetEntity.getValue()
Asset_getValue(asset) ==
  IF asset.price = NoPrice THEN NoValue
  ELSE Money_new(asset.amount * asset.price.value, asset.price.currency)

\* the loop of getTotalValue over _assets.values()
RECURSIVE TotalLoop(_, _, _)
TotalLoop(values, total, currency) ==
  IF values = <<>> THEN total
  ELSE LET value == Asset_getValue(Head(values)) IN
       IF value = MoneyError THEN MoneyError
       ELSE IF value # NoValue /\ value.currency = currency
            THEN TotalLoop(Tail(values),
                           Money_new(total.amount + value.amount, total.currency),
                           currency)
            ELSE TotalLoop(Tail(values), total, currency)

\* PortfolioAggregate.getTotalValue(currency)
Portfolio_getTotalValue(m, currency) ==
  LET zero == Money_new(0, currency) IN
  IF zero = MoneyError THEN MoneyError
  ELSE TotalLoop(MapValues(m), zero, currency)

\* the prices of the held assets
ValuePrices ==
  { NoPrice,
    [value |-> 5, timestamp |-> 1, currency |-> "USD"],
    [value |-> 7, timestamp |-> 1, currency |-> "EUR"],
    [value |-> 1, timestamp |-> 1, currency |-> "USDT"] }

\* the portfolios whose value is asked for: an ETH and a USDC holding
ValuePortfolios ==
  { AddAll(<<>>,
      << AssetEntity([id |-> "a", symbol |-> "ETH", type |-> "crypto",
                      chain |-> "ethereum", contractAddress |-> NoContract,
                      amount |-> n1, price |-> p1,
                      sourceType |-> NoSourceType, fetchedAt |-> Undefined]),
         AssetEntity([id |-> "b", symbol |-> "USDC", type |-> "token",
                      chain |-> "ethereum", contractAddress |-> "0xab",
                      amount |-> n2, price |-> p2,
                      sourceType |-> NoSourceType, fetchedAt |-> Undefined]) >>) :
      n1 \in 1..MaxAmount, n2 \in 1..MaxAmount,
      p1 \in ValuePrices, p2 \in ValuePrices }

\* getTotalValue(currency)
PFGetTotalValue ==
  \E currency \in {"USD", "EUR"} :
    LET r == Portfolio_getTotalValue(pfAssets, currency) IN
    /\ pfCall' = IF r = MoneyError
                 THEN [op |-> "getTotalValue", ret |-> "threw",
                       currency |-> currency, total |-> 0]
                 ELSE [op |-> "getTotalValue", ret |-> "returned",
                       currency |-> currency, total |-> r.amount]
    /\ UNCHANGED <<now, pfAssets, pfSources, pfLastUpdated, NotPortfolio>>

\* getAssetsByChain / getAssetsByType / isEmpty: reads that change nothing
PFRead ==
  /\ pfCall' = [op |-> "read", ret |-> "void"]
  /\ UNCHANGED <<now, pfAssets, pfSources, pfLastUpdated, NotPortfolio>>

NextValue ==
  \/ PFGetTotalValue
  \/ PFRead

InitSpecValue ==
  /\ now = 0
  /\ InitBreakerIdle
  /\ pfAssets \in ValuePortfolios
  /\ pfSources = {}
  /\ pfLastUpdated = 0
  /\ pfCall = [op |-> "new", ret |-> "void"]
  /\ InitMergeIdle
  /\ InitAggregationIdle
  /\ InitSyncIdle
  /\ InitLimiterIdle
  /\ InitOverlapIdle
  /\ InitBusIdle
  /\ InitRegistryIdle
  /\ InitStorageIdle
  /\ InitRefreshIdle

SpecValue == InitSpecValue /\ [][NextValue]_vars


\* =================================================================
\* AssetReconciliationService
\* =================================================================

\* sourcePriority[metadata?.sourceType || 'manual'] || 999
Recon_sourcePriority(asset) ==
  LET st == IF asset.sourceType # NoSourceType THEN asset.sourceType ELSE "manual" IN
  CASE st \in {"on-chain", "blockchain"} -> 1
    [] st = "dex"    -> 2
    [] st = "cex"    -> 3
    [] st = "manual" -> 4
    [] OTHER         -> 999

\* selectPreferredSource(asset1, asset2)
Recon_selectPreferredSource(asset1, asset2) ==
  IF Recon_sourcePriority(asset1) <= Recon_sourcePriority(asset2)
  THEN asset1 ELSE asset2

\* metadata?.fetchedAt ? new Date(fetchedAt).getTime() : 0
Recon_fetchTime(asset) ==
  IF asset.fetchedAt # Undefined THEN asset.fetchedAt ELSE 0

\* selectMostRecentPrice(asset1, asset2)
Recon_selectMostRecentPrice(asset1, asset2) ==
  IF asset1.price = NoPrice /\ asset2.price = NoPrice THEN NoPrice
  ELSE IF asset1.price = NoPrice THEN asset2.price
  ELSE IF asset2.price = NoPrice THEN asset1.price
  ELSE IF Recon_fetchTime(asset1) >= Recon_fetchTime(asset2)
       THEN asset1.price ELSE asset2.price

\* AssetReconciliationService.isSameAsset(asset1, asset2)
Recon_isSameAsset(asset1, asset2) ==
  IF asset1.symbol = asset2.symbol /\ asset1.chain = asset2.chain
  THEN IF asset1.contractAddress # NoContract /\ asset2.contractAddress # NoContract
       THEN toLowerCase(asset1.contractAddress) = toLowerCase(asset2.contractAddress)
       ELSE asset1.contractAddress = NoContract /\ asset2.contractAddress = NoContract
  ELSE FALSE

\* AssetReconciliationService.mergeAssets(asset1, asset2)
Mut_mergeAssets_dropsContract(asset1, asset2) ==
  IF ~Recon_isSameAsset(asset1, asset2) THEN CannotMerge
  ELSE LET preferredAsset == Recon_selectPreferredSource(asset1, asset2) IN
       AssetEntity(
         [id |-> preferredAsset.id, symbol |-> preferredAsset.symbol,
          type |-> preferredAsset.type, chain |-> preferredAsset.chain,
          contractAddress |-> NoContract,
          amount |-> asset1.amount + asset2.amount,
          price |-> Recon_selectMostRecentPrice(asset1, asset2),
          sourceType |-> preferredAsset.sourceType,
          fetchedAt |-> preferredAsset.fetchedAt])

Mut_mergeAssets_keepsFirstAmount(asset1, asset2) ==
  IF ~Recon_isSameAsset(asset1, asset2) THEN CannotMerge
  ELSE LET preferredAsset == Recon_selectPreferredSource(asset1, asset2) IN
       AssetEntity(
         [id |-> preferredAsset.id, symbol |-> preferredAsset.symbol,
          type |-> preferredAsset.type, chain |-> preferredAsset.chain,
          contractAddress |-> preferredAsset.contractAddress,
          amount |-> asset1.amount,
          price |-> Recon_selectMostRecentPrice(asset1, asset2),
          sourceType |-> preferredAsset.sourceType,
          fetchedAt |-> preferredAsset.fetchedAt])

Recon_mergeAssets(asset1, asset2) ==
  IF ~Recon_isSameAsset(asset1, asset2) THEN CannotMerge
  ELSE LET preferredAsset == Recon_selectPreferredSource(asset1, asset2) IN
       AssetEntity(
         [id |-> preferredAsset.id, symbol |-> preferredAsset.symbol,
          type |-> preferredAsset.type, chain |-> preferredAsset.chain,
          contractAddress |-> preferredAsset.contractAddress,
          amount |-> asset1.amount + asset2.amount,
          price |-> Recon_selectMostRecentPrice(asset1, asset2),
          sourceType |-> preferredAsset.sourceType,
          fetchedAt |-> preferredAsset.fetchedAt])

\* AssetReconciliationService.generateAssetKey(asset)
Mut_generateAssetKey_noContract(asset) ==
  << IF asset.chain # NoChain THEN asset.chain ELSE "unknown",
     toUpperCase(asset.symbol) >>

Recon_generateAssetKey(asset) ==
  << IF asset.chain # NoChain THEN asset.chain ELSE "unknown",
     toUpperCase(asset.symbol),
     IF asset.contractAddress # NoContract
     THEN toLowerCase(asset.contractAddress) ELSE "native" >>

\* the loop of AssetReconciliationService.reconcile(assets)
RECURSIVE Recon_loop(_, _)
Recon_loop(assets, reconciled) ==
  IF assets = <<>> THEN [threw |-> FALSE, assets |-> MapValues(reconciled)]
  ELSE LET asset == Head(assets)
           key   == Recon_generateAssetKey(asset) IN
       IF MapHas(reconciled, key)
       THEN LET merged == Recon_mergeAssets(MapGet(reconciled, key), asset) IN
            IF merged = CannotMerge THEN [threw |-> TRUE, assets |-> <<>>]
            ELSE Recon_loop(Tail(assets), MapSet(reconciled, key, merged))
       ELSE Recon_loop(Tail(assets), MapSet(reconciled, key, asset))

Recon_reconcile(assets) == Recon_loop(assets, <<>>)

\* what a call of merge / mergeAssets returned or threw
MergeOutcome(r) ==
  IF r = CannotMerge THEN [threw |-> TRUE, assets |-> <<>>]
  ELSE [threw |-> FALSE, assets |-> <<r>>]

\* id, amount, price and provenance of the assets handed to the merges
MergeVariants ==
  { [id |-> "a", amount |-> 1, price |-> NoPrice,
     sourceType |-> NoSourceType, fetchedAt |-> Undefined],
    [id |-> "b", amount |-> 2, price |-> [value |-> 5, timestamp |-> 1],
     sourceType |-> "cex", fetchedAt |-> 1],
    [id |-> "b", amount |-> 1, price |-> [value |-> 7, timestamp |-> 0],
     sourceType |-> "on-chain", fetchedAt |-> 2] }

\* the shapes that come with every variant; the others come with the first
PricedShapes ==
  { r \in RawShapes :
      /\ r.chain = "ethereum"
      /\ r.symbol = "ETH" \/ r.contractAddress # NoContract }

MergePool ==
  { AssetEntity([id |-> v.id, symbol |-> r.symbol, type |-> r.type,
                 chain |-> r.chain, contractAddress |-> r.contractAddress,
                 amount |-> v.amount, price |-> v.price,
                 sourceType |-> v.sourceType, fetchedAt |-> v.fetchedAt]) :
      r \in PricedShapes, v \in MergeVariants }
  \cup
  { AssetEntity(RawAsset("a", r, 1)) : r \in RawShapes }

\* the lists of 2..MaxList assets
MergeLists ==
  UNION { [1..n -> MergePool] : n \in 2..MaxList }

\* a.merge(b) on the first two assets of the list
MGEntityMerge ==
  /\ mgOut' = [op |-> "merge"] @@ MergeOutcome(Asset_merge(mgList[1], mgList[2]))
  /\ UNCHANGED <<mgList, NotMerge>>

\* service.mergeAssets(a, b) on the first two assets of the list
MGMergeAssets ==
  /\ mgOut' = [op |-> "mergeAssets"]
                @@ MergeOutcome(Recon_mergeAssets(mgList[1], mgList[2]))
  /\ UNCHANGED <<mgList, NotMerge>>

\* service.reconcile(list)
MGReconcile ==
  /\ mgOut' = [op |-> "reconcile"] @@ Recon_reconcile(mgList)
  /\ UNCHANGED <<mgList, NotMerge>>

\* new PortfolioAggregate({assets: list}).reconcile()
MGPortfolioReconcile ==
  /\ mgOut' = [op |-> "portfolioReconcile"]
                @@ LET r == Portfolio_reconcile(AddAll(<<>>, mgList)) IN
                   [threw |-> r.threw, assets |-> MapValues(r.assets)]
  /\ UNCHANGED <<mgList, NotMerge>>

\* service.reconcile(service.reconcile(list)): the second call
MGReconcileAgain ==
  /\ mgOut.op = "reconcile"
  /\ ~mgOut.threw
  /\ mgOut' = [op |-> "reconcileAgain", first |-> mgOut.assets]
                @@ Recon_reconcile(mgOut.assets)
  /\ UNCHANGED <<mgList, NotMerge>>

\* portfolio.reconcile() called again on the portfolio the first call left
MGPortfolioReconcileAgain ==
  /\ mgOut.op = "portfolioReconcile"
  /\ ~mgOut.threw
  /\ mgOut' = [op |-> "portfolioReconcileAgain", first |-> mgOut.assets]
                @@ LET r == ReconcileLoop(mgOut.assets, <<>>) IN
                   [threw |-> r.threw, assets |-> MapValues(r.assets)]
  /\ UNCHANGED <<mgList, NotMerge>>

\* the list with its first two assets exchanged, and the list with its first
\* asset moved to the end: the two generate every reordering
Reordered(list, how) ==
  IF how = "swap"
  THEN <<list[2], list[1]>> \o SubSeq(list, 3, Len(list))
  ELSE Tail(list) \o <<Head(list)>>

\* service.reconcile(list') for a reordering list' of the list
MGReconcileReordered ==
  \E how \in {"swap", "rotate"} :
    /\ mgOut.op = "reconcile"
    /\ mgOut' = [op |-> "reconcileReordered", first |-> mgOut.assets,
                 firstThrew |-> mgOut.threw, how |-> how]
                  @@ Recon_reconcile(Reordered(mgList, how))
    /\ UNCHANGED <<mgList, NotMerge>>

NextMerge ==
  \/ MGEntityMerge
  \/ MGMergeAssets
  \/ MGReconcile
  \/ MGPortfolioReconcile
  \/ MGReconcileAgain
  \/ MGPortfolioReconcileAgain
  \/ MGReconcileReordered

InitSpecMerge ==
  /\ now = 0
  /\ InitBreakerIdle
  /\ InitPortfolioIdle
  /\ mgList \in MergeLists
  /\ mgOut = [op |-> "none", threw |-> FALSE, assets |-> <<>>]
  /\ InitAggregationIdle
  /\ InitSyncIdle
  /\ InitLimiterIdle
  /\ InitOverlapIdle
  /\ InitBusIdle
  /\ InitRegistryIdle
  /\ InitStorageIdle
  /\ InitRefreshIdle

SpecMerge == InitSpecMerge /\ [][NextMerge]_vars

\* the token at contract 0xab under the label another provider gives it
RelabelledShape ==
  [symbol |-> "USDC.e", type |-> "token", chain |-> "ethereum",
   contractAddress |-> "0xab"]

\* the assets handed to the same-asset checks
SamePool ==
  { AssetEntity(RawAsset("a", r, 1)) : r \in RawShapes \cup {RelabelledShape} }

\* service.isSameAsset(a, b) on the two assets of the list
MGIsSameAsset ==
  /\ mgOut' = [op |-> "isSameAsset", threw |-> FALSE, assets |-> <<>>,
               same |-> Recon_isSameAsset(mgList[1], mgList[2])]
  /\ UNCHANGED <<mgList, NotMerge>>

\* a.isSameAsset(b) on the two assets of the list
MGEntityIsSameAsset ==
  /\ mgOut' = [op |-> "entityIsSameAsset", threw |-> FALSE, assets |-> <<>>,
               same |-> Asset_isSameAsset(mgList[1], mgList[2])]
  /\ UNCHANGED <<mgList, NotMerge>>

NextSameAsset ==
  \/ MGIsSameAsset
  \/ MGEntityIsSameAsset

InitSpecSameAsset ==
  /\ now = 0
  /\ InitBreakerIdle
  /\ InitPortfolioIdle
  /\ mgList \in [1..2 -> SamePool]
  /\ mgOut = [op |-> "none", threw |-> FALSE, assets |-> <<>>]
  /\ InitAggregationIdle
  /\ InitSyncIdle
  /\ InitLimiterIdle
  /\ InitOverlapIdle
  /\ InitBusIdle
  /\ InitRegistryIdle
  /\ InitStorageIdle
  /\ InitRefreshIdle

SpecSameAsset == InitSpecSameAsset /\ [][NextSameAsset]_vars

\* =================================================================
\* PortfolioAggregationService.aggregatePortfolio
\* =================================================================

\* the aggregation clock counts milliseconds and advances by TickMs
TickMs == 150 * 1000

\* cacheTimeout of isCacheValid
CacheTimeout == 5 * 60 * 1000

\* isCacheValid(portfolio)
Mut_isCacheValid_fiveSeconds(portfolio, t) ==
  t - portfolio.lastUpdated < 5 * 1000

AG_isCacheValid(portfolio, t) ==
  t - portfolio.lastUpdated < CacheTimeout

\* generatePortfolioId(userId)
AG_generatePortfolioId(userId, t) ==
  IF userId # NoUser THEN [user |-> userId, ms |-> Undefined]
  ELSE [user |-> NoUser, ms |-> t]

\* InMemoryPortfolioRepository.findById(id) / save(portfolio)
Repo_findById(repo, id) ==
  IF \E p \in repo : p.id = id THEN CHOOSE p \in repo : p.id = id
  ELSE NoPortfolio

Mut_save_keepsExisting(repo, portfolio) ==
  IF \E p \in repo : p.id = portfolio.id THEN repo ELSE repo \cup {portfolio}

Repo_save(repo, portfolio) ==
  { p \in repo : p.id # portfolio.id } \cup {portfolio}

\* Array.from(this.integrations.keys())
RegisteredSources == <<"evm", "solana">>

\* options.sources || Array.from(this.integrations.keys())
AG_sourcesToFetch(options) ==
  IF options.sources # NoSources THEN options.sources ELSE RegisteredSources

\* getRelevantAddresses(source, addresses); options.addresses is kept as
\* the set of chains that come with at least one address
AG_getRelevantAddresses(source, addresses) ==
  CASE source = "evm" ->
         addresses \cap {"ethereum", "polygon", "arbitrum", "optimism", "binance"}
    [] source = "solana" -> addresses \cap {"solana"}
    [] source = "robinhood" -> {"default"}
    [] OTHER -> {}

Range(seq) == { seq[i] : i \in 1..Len(seq) }

\* what the integrations hold: duplicates across the two, holdings that
\* differ in the letter case of the contract address or share an id, assets
\* without a chain, and nothing at all
Holdings ==
  LET eth  == [symbol |-> "ETH",  type |-> "crypto", chain |-> "ethereum", contractAddress |-> NoContract]
      eth2 == [symbol |-> "eth",  type |-> "crypto", chain |-> "ethereum", contractAddress |-> NoContract]
      usdc == [symbol |-> "USDC", type |-> "token",  chain |-> "ethereum", contractAddress |-> "0xAB"]
      usdl == [symbol |-> "USDC", type |-> "token",  chain |-> "ethereum", contractAddress |-> "0xab"]
      freeU == [symbol |-> "USDC", type |-> "token", chain |-> NoChain, contractAddress |-> "0xAB"]
      freeL == [symbol |-> "USDC", type |-> "token", chain |-> NoChain, contractAddress |-> "0xab"]
  IN { [evm |-> << RawAsset("a", eth, 1) >>,
        solana |-> << RawAsset("b", eth2, 2) >>],
       [evm |-> << RawAsset("a", usdc, 1), RawAsset("b", usdl, 1) >>,
        solana |-> << RawAsset("a", eth, 1) >>],
       [evm |-> << RawAsset("a", freeU, 1), RawAsset("b", freeL, 1) >>,
        solana |-> <<>>],
       [evm |-> <<>>, solana |-> <<>>] }

\* assets.map(a => new AssetEntity({...}))
MapToEntities(raw) == [i \in 1..Len(raw) |-> AssetEntity(raw[i])]

\* what the valuator's getBatchPrices returns for a symbol at time t
BatchPrice(symbol, t) ==
  IF symbol = "ETH" THEN [value |-> 3, timestamp |-> t] ELSE NoPrice

\* the price loop of enrichWithPrices: updatePrice where a price came back
AG_applyPrices(m, t) ==
  [i \in 1..Len(m) |->
     IF BatchPrice(m[i].val.symbol, t) # NoPrice
     THEN [m[i] EXCEPT !.val.price = BatchPrice(m[i].val.symbol, t)]
     ELSE m[i]]

\* the outcomes of one fetchFromSource(source, addresses)
FetchOutcomes(source, options) ==
  (IF source \in agConnected THEN {} ELSE {"connectThrows"})
  \cup (IF AG_getRelevantAddresses(source, options.addresses) = {}
        THEN {"noAddresses"} ELSE {"fetchThrows", "fetched"})

\* the value a fulfilled fetchFromSource carries
FetchValue(source, outcome) ==
  IF outcome = "fetched" THEN MapToEntities(agHoldings[source]) ELSE <<>>

\* the loop over the settled results: addSource, then addAsset each
RECURSIVE AG_processResults(_, _, _, _)
AG_processResults(portfolio, sources, outcome, t) ==
  IF sources = <<>> THEN portfolio
  ELSE LET source == Head(sources) IN
       IF outcome[source] \in {"fetched", "noAddresses"}
       THEN AG_processResults(
              [portfolio EXCEPT
                 !.sources = @ \cup {source},
                 !.assets = AddAll(@, FetchValue(source, outcome[source])),
                 !.lastUpdated = t],
              Tail(sources), outcome, t)
       ELSE AG_processResults(portfolio, Tail(sources), outcome, t)

\* the assets the fulfilled fetches carried, in processing order
RECURSIVE FetchedAssets(_, _)
FetchedAssets(sources, outcome) ==
  IF sources = <<>> THEN <<>>
  ELSE FetchValue(Head(sources), outcome[Head(sources)])
         \o FetchedAssets(Tail(sources), outcome)

AggregationOptions ==
  [userId : {"u1", NoUser},
   forceRefresh : BOOLEAN,
   sources : {NoSources, <<"solana", "evm">>},
   addresses : {{"ethereum", "solana"}, {"ethereum"}}]

\* aggregatePortfolio(options) up to its first suspension: the cache check,
\* then either `return cached` or the new portfolio and one fetchFromSource
\* per source, each of which inspects (and connects) its integration
AGStart ==
  \E options \in AggregationOptions :
    LET portfolioId == AG_generatePortfolioId(options.userId, now)
        cached == Repo_findById(agRepo, portfolioId)
        hit == /\ ~options.forceRefresh
               /\ cached # NoPortfolio
               /\ AG_isCacheValid(cached, now)
    IN
    /\ agCall.phase = "idle"
    /\ agCalls < MaxCalls
    /\ agCalls' = agCalls + 1
    /\ agCall' =
         IF hit
         THEN [phase |-> "done", via |-> "cache", options |-> options,
               portfolio |-> cached, failed |-> {}, fetched |-> <<>>]
         ELSE [phase |-> "fetching", via |-> "fetch", options |-> options,
               portfolio |-> [id |-> portfolioId, userId |-> options.userId,
                              assets |-> <<>>, sources |-> {},
                              lastUpdated |-> now],
               failed |-> {}, fetched |-> <<>>]
    /\ agLog' =
         IF hit THEN NoLog
         ELSE [NoLog EXCEPT !.providers = Range(AG_sourcesToFetch(options))]
    /\ UNCHANGED <<now, agRepo, agHoldings, agConnected, NotAggregation>>

\* Promise.allSettled resolved: every fetchFromSource has settled; the
\* results are processed, the portfolio reconciled and, when it holds a
\* symbol, the valuator asked for prices; an empty portfolio is saved at once
AGSettle ==
  LET options == agCall.options
      sources == AG_sourcesToFetch(options) IN
  /\ agCall.phase = "fetching"
  /\ \E outcome \in [Range(sources) ->
                       {"connectThrows", "noAddresses", "fetchThrows", "fetched"}] :
       LET failed == { src \in Range(sources) :
                         outcome[src] \in {"connectThrows", "fetchThrows"} }
           p1 == AG_processResults(agCall.portfolio, sources, outcome, now)
           r  == Portfolio_reconcile(p1.assets)
           p2 == [p1 EXCEPT !.assets = r.assets, !.lastUpdated = now]
           settled == [agCall EXCEPT !.failed = failed,
                                     !.fetched = FetchedAssets(sources, outcome)]
       IN
       /\ \A src \in Range(sources) : outcome[src] \in FetchOutcomes(src, options)
       /\ agConnected' = agConnected \cup
                           { src \in Range(sources) : outcome[src] # "connectThrows" }
       /\ IF r.threw
          THEN /\ agCall' = [settled EXCEPT !.phase = "rejected", !.portfolio = p1]
               /\ UNCHANGED <<agRepo, agLog>>
          ELSE IF p2.assets = <<>>
          THEN /\ agCall' = [settled EXCEPT !.phase = "done", !.portfolio = p2]
               /\ agRepo' = Repo_save(agRepo, p2)
               /\ agLog' = [agLog EXCEPT !.saved = TRUE]
          ELSE /\ agCall' = [settled EXCEPT !.phase = "enriching", !.portfolio = p2]
               /\ agLog' = [agLog EXCEPT !.valuator = TRUE]
               /\ UNCHANGED agRepo
  /\ UNCHANGED <<now, agHoldings, agCalls, NotAggregation>>

\* getBatchPrices settled: prices applied (a failure is swallowed), then
\* portfolioRepository.save(portfolio) and `return portfolio`
AGEnriched ==
  /\ agCall.phase = "enriching"
  /\ \E answer \in {"prices", "throws"} :
       LET p3 == IF answer = "prices"
                 THEN [agCall.portfolio EXCEPT !.assets = AG_applyPrices(@, now)]
                 ELSE agCall.portfolio IN
       /\ agCall' = [agCall EXCEPT !.phase = "done", !.portfolio = p3]
       /\ agRepo' = Repo_save(agRepo, p3)
       /\ agLog' = [agLog EXCEPT !.saved = TRUE]
  /\ UNCHANGED <<now, agHoldings, agConnected, agCalls, NotAggregation>>

\* the caller has received the portfolio or the error; the call is over
AGReturn ==
  /\ agCall.phase \in {"done", "rejected"}
  /\ agCall' = IdleCall
  /\ agLog' = NoLog
  /\ UNCHANGED <<now, agRepo, agHoldings, agConnected, agCalls, NotAggregation>>

\* time passes, between calls and while the fetches are awaited; the clock
\* runs from 0 to the cache timeout
AGTick ==
  /\ agCall.phase \in {"idle", "fetching"}
  /\ now < CacheTimeout
  /\ now' = now + TickMs
  /\ UNCHANGED <<agVars, NotAggregation>>

NextAggregation ==
  \/ AGStart
  \/ AGSettle
  \/ AGEnriched
  \/ AGReturn
  \/ AGTick

InitSpecAggregation ==
  /\ now = 0
  /\ InitBreakerIdle
  /\ InitPortfolioIdle
  /\ InitMergeIdle
  /\ agRepo = {}
  /\ agHoldings \in Holdings
  /\ agConnected = {}
  /\ agCall = IdleCall
  /\ agLog = NoLog
  /\ agCalls = 0
  /\ InitSyncIdle
  /\ InitLimiterIdle
  /\ InitOverlapIdle
  /\ InitBusIdle
  /\ InitRegistryIdle
  /\ InitStorageIdle
  /\ InitRefreshIdle

SpecAggregation == InitSpecAggregation /\ [][NextAggregation]_vars

\* =================================================================
\* refreshPortfolio
\* =================================================================

\* extractAddresses(portfolio): every chain of a held asset is set to
\* `addresses.get(chain) || []`, the empty array
AG_extractedList(chain) == <<>>

\* the Map extractAddresses returns, kept (as options.addresses is) as the
\* set of chains that come with at least one address
AG_extractAddresses(portfolio) ==
  LET chains == { portfolio.assets[i].val.chain : i \in 1..Len(portfolio.assets) }
                  \ {NoChain} IN
  { chain \in chains : AG_extractedList(chain) # <<>> }

\* existing.sources: Array.from(the Set), in the order the sources were added
SourceArrays(sources) ==
  { seq \in UNION { [1..n -> sources] : n \in 0..Cardinality(sources) } :
      /\ Len(seq) = Cardinality(sources)
      /\ Range(seq) = sources }

\* an id under which nothing was saved
MissingId == [user |-> "u2", ms |-> Undefined]

\* refreshPortfolio(portfolioId) up to the first suspension of the
\* aggregatePortfolio call it makes
AGRefresh ==
  \E portfolioId \in { p.id : p \in agRepo } \cup {MissingId} :
    LET existing == Repo_findById(agRepo, portfolioId) IN
    /\ agCall.phase = "idle"
    /\ agCalls < MaxCalls
    /\ agCalls' = agCalls + 1
    /\ rfRequest' = [call |-> agCalls', id |-> portfolioId, existing |-> existing]
    /\ IF existing = NoPortfolio
       THEN /\ agCall' = [IdleCall EXCEPT !.phase = "rejected", !.via = "notFound"]
            /\ agLog' = NoLog
       ELSE \E sources \in SourceArrays(existing.sources) :
              LET options == [userId |-> existing.userId, forceRefresh |-> TRUE,
                              sources |-> sources,
                              addresses |-> AG_extractAddresses(existing)]
                  newId == AG_generatePortfolioId(options.userId, now) IN
              /\ agCall' =
                   [phase |-> "fetching", via |-> "fetch", options |-> options,
                    portfolio |-> [id |-> newId, userId |-> options.userId,
                                   assets |-> <<>>, sources |-> {},
                                   lastUpdated |-> now],
                    failed |-> {}, fetched |-> <<>>]
              /\ agLog' = [NoLog EXCEPT !.providers = Range(AG_sourcesToFetch(options))]
    /\ UNCHANGED <<now, agRepo, agHoldings, agConnected, NotRefresh>>

NextRefresh ==
  \/ AGStart
  \/ AGRefresh
  \/ AGSettle
  \/ AGEnriched
  \/ AGReturn
  \/ AGTick

InitSpecRefresh ==
  /\ now = 0
  /\ InitBreakerIdle
  /\ InitPortfolioIdle
  /\ InitMergeIdle
  /\ agRepo = {}
  /\ agHoldings \in Holdings
  /\ agConnected = {}
  /\ agCall = IdleCall
  /\ agLog = NoLog
  /\ agCalls = 0
  /\ InitSyncIdle
  /\ InitLimiterIdle
  /\ InitOverlapIdle
  /\ InitBusIdle
  /\ InitRegistryIdle
  /\ InitStorageIdle
  /\ InitRefreshIdle

SpecRefresh == InitSpecRefresh /\ [][NextRefresh]_vars

\* =================================================================
\* aggregatePortfolio: calls in flight together, valuator and
\* repository failures
\* =================================================================

\* enrichWithPrices(portfolio) given the valuator's answer: without a symbol
\* the valuator is not asked; a failure of getBatchPrices is caught
Mut_enrichWithPrices_rethrows(portfolio, answer, t) ==
  IF portfolio.assets = <<>> THEN [threw |-> FALSE, portfolio |-> portfolio]
  ELSE IF answer = "prices"
  THEN [threw |-> FALSE,
        portfolio |-> [portfolio EXCEPT !.assets = AG_applyPrices(@, t)]]
  ELSE [threw |-> TRUE, portfolio |-> portfolio]

AG_enrichWithPrices(portfolio, answer, t) ==
  IF portfolio.assets = <<>> THEN [threw |-> FALSE, portfolio |-> portfolio]
  ELSE IF answer = "prices"
  THEN [threw |-> FALSE,
        portfolio |-> [portfolio EXCEPT !.assets = AG_applyPrices(@, t)]]
  ELSE [threw |-> FALSE, portfolio |-> portfolio]

\* what the integrations return while the calls overlap: holdings that the
\* providers priced themselves, and other balances without prices
OverlapHoldings ==
  LET eth  == [symbol |-> "ETH",  type |-> "crypto", chain |-> "ethereum", contractAddress |-> NoContract]
      usdc == [symbol |-> "USDC", type |-> "token",  chain |-> "ethereum", contractAddress |-> "0xab"]
  IN { [evm |-> << [RawAsset("a", eth, 1) EXCEPT
                      !.price = [value |-> 2, timestamp |-> 0]] >>,
        solana |-> << [RawAsset("b", usdc, 1) EXCEPT
                         !.price = [value |-> 1, timestamp |-> 0]] >>],
       [evm |-> << RawAsset("a", eth, 2) >>,
        solana |-> <<>>] }

OverlapOptions ==
  [userId : {"u1"},
   forceRefresh : BOOLEAN,
   sources : {NoSources},
   addresses : {{"ethereum", "solana"}}]

\* `await this.portfolioRepository.save(portfolio); return portfolio` and the
\* catch block around it: the call ends with the portfolio or with the error
CX_saved(call, portfolio, outcome) ==
  [call EXCEPT !.phase = IF outcome = "saved" THEN "done" ELSE "rejected",
               !.portfolio = portfolio,
               !.save = outcome]

\* aggregatePortfolio(options) up to its first suspension, by call c
CXStart(c) ==
  \E options \in OverlapOptions :
    LET portfolioId == AG_generatePortfolioId(options.userId, now)
        cached == Repo_findById(agRepo, portfolioId)
        hit == /\ ~options.forceRefresh
               /\ cached # NoPortfolio
               /\ AG_isCacheValid(cached, now)
    IN
    /\ cxCall[c].phase = "idle"
    /\ cxCall' = [cxCall EXCEPT ![c] =
         IF hit
         THEN [NotCalled EXCEPT !.phase = "done", !.via = "cache",
                                !.options = options, !.portfolio = cached]
         ELSE [NotCalled EXCEPT !.phase = "fetching", !.via = "fetch",
                                !.options = options,
                                !.portfolio =
                                  [id |-> portfolioId, userId |-> options.userId,
                                   assets |-> <<>>, sources |-> {},
                                   lastUpdated |-> now]]]
    /\ UNCHANGED <<agVars, cxSaves, NotOverlap>>

\* Promise.allSettled of call c resolved: results processed, portfolio
\* reconciled; an empty portfolio goes to save at once, any other waits for
\* the valuator
CXSettle(c) ==
  LET call == cxCall[c]
      options == call.options
      sources == AG_sourcesToFetch(options) IN
  /\ call.phase = "fetching"
  /\ \E outcome \in [Range(sources) ->
                       {"connectThrows", "noAddresses", "fetchThrows", "fetched"}],
        saving \in {"saved", "throws"} :
       LET failed == { src \in Range(sources) :
                         outcome[src] \in {"connectThrows", "fetchThrows"} }
           p1 == AG_processResults(call.portfolio, sources, outcome, now)
           r  == Portfolio_reconcile(p1.assets)
           p2 == [p1 EXCEPT !.assets = r.assets, !.lastUpdated = now]
           settled == [call EXCEPT !.failed = failed,
                                   !.fetched = FetchedAssets(sources, outcome)]
       IN
       /\ \A src \in Range(sources) : outcome[src] \in FetchOutcomes(src, options)
       /\ agConnected' = agConnected \cup
                           { src \in Range(sources) : outcome[src] # "connectThrows" }
       /\ IF r.threw
          THEN /\ saving = "saved"
               /\ cxCall' = [cxCall EXCEPT ![c] =
                    [settled EXCEPT !.phase = "rejected", !.portfolio = p1]]
               /\ UNCHANGED <<agRepo, cxSaves>>
          ELSE IF p2.assets = <<>>
          THEN /\ cxCall' = [cxCall EXCEPT ![c] =
                    CX_saved([settled EXCEPT !.reconciled = p2], p2, saving)]
               /\ agRepo' = IF saving = "saved" THEN Repo_save(agRepo, p2) ELSE agRepo
               /\ cxSaves' = IF saving = "saved" THEN Append(cxSaves, c) ELSE cxSaves
          ELSE /\ saving = "saved"
               /\ cxCall' = [cxCall EXCEPT ![c] =
                    [settled EXCEPT !.phase = "enriching", !.portfolio = p2,
                                    !.reconciled = p2]]
               /\ UNCHANGED <<agRepo, cxSaves>>
  /\ UNCHANGED <<agHoldings, agCall, agLog, agCalls, NotOverlap>>

\* getBatchPrices of call c settled, then portfolioRepository.save
CXEnriched(c) ==
  LET call == cxCall[c] IN
  /\ call.phase = "enriching"
  /\ \E answer \in {"prices", "throws"}, saving \in {"saved", "throws"} :
       LET e == AG_enrichWithPrices(call.portfolio, answer, now)
           asked == [call EXCEPT !.valuator = answer] IN
       IF e.threw
       THEN /\ saving = "saved"
            /\ cxCall' = [cxCall EXCEPT ![c] = [asked EXCEPT !.phase = "rejected"]]
            /\ UNCHANGED <<agRepo, cxSaves>>
       ELSE /\ cxCall' = [cxCall EXCEPT ![c] = CX_saved(asked, e.portfolio, saving)]
            /\ agRepo' = IF saving = "saved"
                         THEN Repo_save(agRepo, e.portfolio) ELSE agRepo
            /\ cxSaves' = IF saving = "saved" THEN Append(cxSaves, c) ELSE cxSaves
  /\ UNCHANGED <<agHoldings, agConnected, agCall, agLog, agCalls, NotOverlap>>

\* the caller of c has received the portfolio or the error
CXReturn(c) ==
  /\ cxCall[c].phase \in {"done", "rejected"}
  /\ cxCall' = [cxCall EXCEPT ![c].phase =
                  IF @ = "done" THEN "returned" ELSE "failed"]
  /\ UNCHANGED <<agVars, cxSaves, NotOverlap>>

\* the holdings the integrations report change while calls are in flight
CXHoldingsChange ==
  /\ \E c \in CallIds : cxCall[c].phase = "fetching"
  /\ agHoldings' \in OverlapHoldings \ {agHoldings}
  /\ UNCHANGED <<agRepo, agConnected, agCall, agLog, agCalls, cxVars, NotOverlap>>

CXStartAny == \E c \in CallIds : CXStart(c)
CXSettleAny == \E c \in CallIds : CXSettle(c)
CXEnrichedAny == \E c \in CallIds : CXEnriched(c)
CXReturnAny == \E c \in CallIds : CXReturn(c)

NextOverlap ==
  \/ CXStartAny
  \/ CXSettleAny
  \/ CXEnrichedAny
  \/ CXReturnAny
  \/ CXHoldingsChange

InitSpecOverlap ==
  /\ now = 0
  /\ InitBreakerIdle
  /\ InitPortfolioIdle
  /\ InitMergeIdle
  /\ agRepo = {}
  /\ agHoldings \in OverlapHoldings
  /\ agConnected = {}
  /\ agCall = IdleCall
  /\ agLog = NoLog
  /\ agCalls = 0
  /\ InitSyncIdle
  /\ InitLimiterIdle
  /\ InitOverlapIdle
  /\ InitBusIdle
  /\ InitRegistryIdle
  /\ InitStorageIdle
  /\ InitRefreshIdle

SpecOverlap == InitSpecOverlap /\ [][NextOverlap]_vars

(***************************************************************************)
(* SyncOrchestratorService: orchestrateSync, syncSource and the metrics    *)
(* updates.  One circuit breaker and one rate limiter per registered       *)
(* integration; the limiter is seen through waitForSlot() returning.       *)
(***************************************************************************)

\* the configuration circuitBreakerFactory gives every breaker
SyncBreakerConfig ==
  [failureThreshold |-> 2, recoveryTimeout |-> 1, halfOpenRetries |-> 1]

\* a source with no integration registered in the constructor
Unregistered == "robinhood"

\* the `sources` arguments of orchestrateSync
SyncRequests == {<<"evm">>, <<"evm", "solana">>, <<"solana", Unregistered>>}

NewSourceMetrics == [totalAttempts |-> 0, successCount |-> 0, failureCount |-> 0]

InitSync ==
  /\ syGuard = FALSE
  /\ syBreakers = [s \in IntegrationSource |-> CB_new]
  /\ sySlots = [s \in IntegrationSource |-> 0]
  /\ syMetrics = [totalSyncs |-> 0, successfulSyncs |-> 0, failedSyncs |-> 0,
                  sourceMetrics |-> [s \in IntegrationSource |-> NewSourceMetrics]]
  /\ syCycle = NoCycle
  /\ syLast = [op |-> "new", ret |-> "void", result |-> NoSyncResult]
  /\ syCycles = 0

\* orchestrateSync: `if (this.syncInProgress) throw ...`
Mut_rejects_never(inProgress) == FALSE

Sync_rejects(inProgress) == inProgress

\* syncSource(source) up to its first await: the integration lookup and the
\* circuit breaker check; the task is then rejected or waits for a slot
Mut_taskStart_noBreakerCheck(source, breakers) ==
  IF source \notin IntegrationSource THEN "notFound" ELSE "waiting"

Sync_taskStart(source, breakers) ==
  IF source \notin IntegrationSource THEN "notFound"
  ELSE IF ~CB_admits(CB_getState(breakers[source], now), SyncBreakerConfig)
       THEN "circuitOpen"
       ELSE "waiting"

\* a task of Promise.allSettled has settled
Sync_settled(phase) == phase \notin {"waiting", "running"}

\* Promise.allSettled(syncPromises) resolves
Mut_allSettled_first(tasks) == \E s \in DOMAIN tasks : Sync_settled(tasks[s])

Sync_allSettled(tasks) == \A s \in DOMAIN tasks : Sync_settled(tasks[s])

\* the SyncResult built by the loop over the settled results
Sync_result(sources, tasks) ==
  LET ok(s)  == tasks[s] = "fulfilled"
      bad(s) == tasks[s] # "fulfilled" IN
  [successful |-> SelectSeq(sources, ok),
   failed     |-> SelectSeq(sources, bad),
   errors     |-> [s \in {x \in DOMAIN tasks : bad(x)} |-> tasks[s]]]

\* updateSourceMetrics(source, success): the counters of a registered source
Sync_updateSourceMetrics(m, success) ==
  IF success
  THEN [m EXCEPT !.totalAttempts = @ + 1, !.successCount = @ + 1]
  ELSE [m EXCEPT !.totalAttempts = @ + 1, !.failureCount = @ + 1]

\* updateSourceMetrics(source, success): the breaker is told the outcome
Sync_recordOutcome(b, success) ==
  IF success THEN CB_recordSuccess(b, now, SyncBreakerConfig)
  ELSE CB_recordFailure(b, now, SyncBreakerConfig)

\* updateGlobalMetrics(result)
Sync_updateGlobalMetrics(m, result) ==
  [m EXCEPT !.totalSyncs = @ + 1,
            !.successfulSyncs = IF Len(result.failed) = 0 THEN @ + 1 ELSE @,
            !.failedSyncs = IF Len(result.failed) # 0 /\ Len(result.successful) = 0
                            THEN @ + 1 ELSE @]

\* eventEmitter.emit(SYNC_CYCLE_STARTED, event): the emitter is the caller's;
\* with a listener that throws, emit throws (listeners of the other event
\* types are taken to return)
EmitOutcomes == {"returns", "throws"}

\* orchestrateSync(sources) up to `await Promise.allSettled`
SYOrchestrate ==
  \E sources \in SyncRequests, started \in EmitOutcomes :
    IF Sync_rejects(syGuard)
    THEN /\ syLast' = [op |-> "orchestrateSync",
                       ret |-> "Sync already in progress",
                       result |-> NoSyncResult]
         /\ UNCHANGED <<now, syGuard, syBreakers, sySlots, syMetrics, syCycle,
                        syCycles>>
         /\ UNCHANGED NotSync
    ELSE IF started = "throws"
    THEN /\ syCycles < MaxCycles
         /\ syGuard' = TRUE
         /\ syCycles' = syCycles + 1
         /\ syLast' = [op |-> "orchestrateSync", ret |-> "emit threw",
                       result |-> NoSyncResult]
         /\ UNCHANGED <<now, syBreakers, sySlots, syMetrics, syCycle>>
         /\ UNCHANGED NotSync
    ELSE /\ syCycles < MaxCycles
         /\ syGuard' = TRUE
         /\ syCycles' = syCycles + 1
         /\ syBreakers' =
              [s \in IntegrationSource |->
                 IF s \in Range(sources)
                 THEN CB_getState(syBreakers[s], now) ELSE syBreakers[s]]
         /\ syCycle' =
              [sources |-> sources,
               tasks |-> [s \in Range(sources) |-> Sync_taskStart(s, syBreakers)],
               contacted |-> {}]
         /\ syLast' = [op |-> "orchestrateSync", ret |-> "pending",
                       result |-> NoSyncResult]
         /\ UNCHANGED <<now, sySlots, syMetrics>>
         /\ UNCHANGED NotSync

\* syncSource resumed: waitForSlot() returned, circuitBreaker.execute starts
\* and either throws or calls the provider
SYSlot ==
  \E s \in DOMAIN syCycle.tasks :
    LET b1 == CB_getState(syBreakers[s], now)
        ok == CB_admits(b1, SyncBreakerConfig) IN
    /\ syCycle.tasks[s] = "waiting"
    /\ sySlots' = [sySlots EXCEPT ![s] = @ + 1]
    /\ syBreakers' = [syBreakers EXCEPT ![s] = b1]
    /\ syCycle' =
         [syCycle EXCEPT
            !.tasks[s] = IF ok THEN "running" ELSE "breakerRejected",
            !.contacted = IF ok THEN @ \cup {s} ELSE @]
    /\ UNCHANGED <<now, syGuard, syMetrics, syLast, syCycles>>
    /\ UNCHANGED NotSync

\* the provider's connect()/fetchAssets() settles; execute records the outcome
SYProvider ==
  \E s \in DOMAIN syCycle.tasks, success \in BOOLEAN :
    /\ syCycle.tasks[s] = "running"
    /\ syBreakers' = [syBreakers EXCEPT ![s] = Sync_recordOutcome(@, success)]
    /\ syCycle' = [syCycle EXCEPT
                     !.tasks[s] = IF success THEN "fulfilled" ELSE "providerError"]
    /\ UNCHANGED <<now, syGuard, sySlots, syMetrics, syLast, syCycles>>
    /\ UNCHANGED NotSync

\* orchestrateSync resumed: the results loop, the global metrics, the return
\* and the `finally`
SYSettle ==
  LET tasks  == syCycle.tasks
      known  == DOMAIN tasks \cap IntegrationSource
      result == Sync_result(syCycle.sources, tasks) IN
  /\ syGuard
  /\ syCycle # NoCycle
  /\ Sync_allSettled(tasks)
  /\ syBreakers' =
       [s \in IntegrationSource |->
          IF s \in known
          THEN Sync_recordOutcome(syBreakers[s], tasks[s] = "fulfilled")
          ELSE syBreakers[s]]
  /\ syMetrics' =
       Sync_updateGlobalMetrics(
         [syMetrics EXCEPT !.sourceMetrics =
            [s \in IntegrationSource |->
               IF s \in known
               THEN Sync_updateSourceMetrics(@[s], tasks[s] = "fulfilled")
               ELSE @[s]]],
         result)
  /\ syLast' = [op |-> "settled", ret |-> "resolved", result |-> result]
  /\ syCycle' = NoCycle
  /\ syGuard' = FALSE
  /\ UNCHANGED <<now, sySlots, syCycles>>
  /\ UNCHANGED NotSync

SYTick ==
  /\ now < MaxTime
  /\ now' = now + 1
  /\ UNCHANGED syVars
  /\ UNCHANGED NotSync

NextSync ==
  \/ SYOrchestrate
  \/ SYSlot
  \/ SYProvider
  \/ SYSettle
  \/ SYTick

InitSpecSync ==
  /\ now = 0
  /\ InitBreakerIdle
  /\ InitPortfolioIdle
  /\ InitMergeIdle
  /\ InitAggregationIdle
  /\ InitSync
  /\ InitLimiterIdle
  /\ InitOverlapIdle
  /\ InitBusIdle
  /\ InitRegistryIdle
  /\ InitStorageIdle
  /\ InitRefreshIdle

SpecSync == InitSpecSync /\ [][NextSync]_vars

(***************************************************************************)
(* TokenBucketRateLimiter and SlidingWindowRateLimiter.  The code keeps    *)
(* absolute times and only ever uses their distance to Date.now(); the     *)
(* model keeps these distances (ages, in ms), which stop growing once a    *)
(* larger age makes no difference to any later call.                       *)
(***************************************************************************)

\* `60000`: one minute in milliseconds
WindowSize == 60 * 1000

\* the clock advances in quarters of a minute
LimiterTickMs == WindowSize \div 4

\* burstLimit left out (`config.burstLimit || ...` also takes 0 as left out)
NoBurst == 0

RateLimitConfig ==
  [requestsPerMinute : {1, 2, 4}, burstLimit : {NoBurst, 1, 2}]

Callers == {"c1", "c2"}

Least(a, b) == IF a <= b THEN a ELSE b

Greatest(a, b) == IF a >= b THEN a ELSE b

\* `this.config.burstLimit || this.config.requestsPerMinute`
RL_maxTokens(cfg) ==
  IF cfg.burstLimit # NoBurst THEN cfg.burstLimit ELSE cfg.requestsPerMinute

\* refillTokens(): tokensToAdd = floor(elapsedMinutes * requestsPerMinute)
Mut_refillTokens_never(tokens, elapsed, cfg) ==
  [tokens |-> tokens, elapsed |-> elapsed]

Mut_refillTokens_uncapped(tokens, elapsed, cfg) ==
  LET tokensToAdd == (elapsed * cfg.requestsPerMinute) \div WindowSize IN
  IF elapsed > 0 /\ tokensToAdd > 0
  THEN [tokens |-> tokens + tokensToAdd, elapsed |-> 0]
  ELSE [tokens |-> tokens, elapsed |-> elapsed]

TB_refillTokens(tokens, elapsed, cfg) ==
  LET tokensToAdd == (elapsed * cfg.requestsPerMinute) \div WindowSize IN
  IF elapsed > 0 /\ tokensToAdd > 0
  THEN [tokens |-> Least(tokens + tokensToAdd, RL_maxTokens(cfg)), elapsed |-> 0]
  ELSE [tokens |-> tokens, elapsed |-> elapsed]

\* TokenBucketRateLimiter.allowRequest()
TB_allowRequest(tokens, elapsed, cfg) ==
  LET r == TB_refillTokens(tokens, elapsed, cfg) IN
  IF r.tokens > 0
  THEN [ok |-> TRUE, tokens |-> r.tokens - 1, elapsed |-> r.elapsed]
  ELSE [ok |-> FALSE, tokens |-> r.tokens, elapsed |-> r.elapsed]

\* the age of lastRefillTime from which a refill fills the bucket whatever
\* the tokens left
TB_fullAfter(cfg) == RL_maxTokens(cfg) * (WindowSize \div cfg.requestsPerMinute)

\* cleanOldRequests(): keeps ts > Date.now() - windowSize
Mut_cleanOldRequests_keepsCutoff(stamps) ==
  SelectSeq(stamps, LAMBDA age : age <= WindowSize)

SW_cleanOldRequests(stamps) ==
  SelectSeq(stamps, LAMBDA age : age < WindowSize)

\* SlidingWindowRateLimiter.allowRequest()
SW_allowRequest(stamps, cfg) ==
  LET kept == SW_cleanOldRequests(stamps) IN
  IF Len(kept) < RL_maxTokens(cfg)
  THEN [ok |-> TRUE, stamps |-> Append(kept, 0)]
  ELSE [ok |-> FALSE, stamps |-> kept]

\* allowRequest() of the instance: whether it admits, and the fields after
RL_allowRequest ==
  IF rlKind = "tokenBucket"
  THEN LET r == TB_allowRequest(rlTokens, rlElapsed, rlConfig) IN
       [ok |-> r.ok, tokens |-> r.tokens, elapsed |-> r.elapsed,
        stamps |-> rlStamps]
  ELSE LET r == SW_allowRequest(rlStamps, rlConfig) IN
       [ok |-> r.ok, tokens |-> rlTokens, elapsed |-> rlElapsed,
        stamps |-> r.stamps]

\* the fields and the admission history after an allowRequest()
RL_after(r) ==
  /\ rlTokens' = r.tokens
  /\ rlElapsed' = r.elapsed
  /\ rlStamps' = r.stamps
  /\ rlHist' = IF r.ok THEN Append(rlHist, 0) ELSE rlHist

\* time passes: every age grows, up to the age past which it is all the same
RL_older(ages, most) == [i \in DOMAIN ages |-> Least(ages[i] + LimiterTickMs, most)]

InitLimiter ==
  /\ rlKind \in {"tokenBucket", "slidingWindow"}
  /\ rlConfig \in RateLimitConfig
  /\ rlTokens = IF rlKind = "tokenBucket" THEN RL_maxTokens(rlConfig) ELSE 0
  /\ rlElapsed = 0
  /\ rlStamps = <<>>
  /\ rlHist = <<>>
  /\ rlWait = [c \in Callers |-> FALSE]
  /\ rlLast = NoLimiterCall
  /\ rlCalls = 0

\* allowRequest()
RLAllowRequest ==
  LET r == RL_allowRequest IN
  /\ rlCalls < MaxLimiterCalls
  /\ rlCalls' = rlCalls + 1
  /\ RL_after(r)
  /\ rlLast' = [op |-> "allowRequest", ret |-> Verdict(r.ok),
                caller |-> NoCaller, waited |-> FALSE]
  /\ UNCHANGED <<rlKind, rlConfig, rlWait>>
  /\ UNCHANGED NotLimiter

\* waitForSlot() up to its return or its first sleep
RLWaitForSlot ==
  \E c \in Callers :
    LET r == RL_allowRequest IN
    /\ ~rlWait[c]
    /\ rlCalls < MaxLimiterCalls
    /\ rlCalls' = rlCalls + 1
    /\ RL_after(r)
    /\ rlWait' = [rlWait EXCEPT ![c] = ~r.ok]
    /\ rlLast' = [op |-> "waitForSlot",
                  ret |-> IF r.ok THEN "returned" ELSE "waiting",
                  caller |-> c, waited |-> FALSE]
    /\ UNCHANGED <<rlKind, rlConfig>>
    /\ UNCHANGED NotLimiter

\* waitForSlot() of caller c resumed after a sleep: the next allowRequest()
RLPoll(c) ==
  LET r == RL_allowRequest IN
  /\ rlWait[c]
  /\ RL_after(r)
  /\ rlWait' = [rlWait EXCEPT ![c] = ~r.ok]
  /\ rlLast' = IF r.ok
               THEN [op |-> "waitForSlot", ret |-> "returned",
                     caller |-> c, waited |-> TRUE]
               ELSE rlLast
  /\ UNCHANGED <<rlKind, rlConfig, rlCalls>>
  /\ UNCHANGED NotLimiter

RLPollAny == \E c \in Callers : RLPoll(c)

\* reset(): requestQueue is never pushed to, so its loop does nothing
RLReset ==
  /\ rlCalls < MaxLimiterCalls
  /\ rlCalls' = rlCalls + 1
  /\ rlTokens' = IF rlKind = "tokenBucket" THEN RL_maxTokens(rlConfig) ELSE rlTokens
  /\ rlElapsed' = 0
  /\ rlStamps' = <<>>
  /\ rlHist' = <<>>
  /\ rlLast' = [op |-> "reset", ret |-> "void", caller |-> NoCaller,
                waited |-> FALSE]
  /\ UNCHANGED <<rlKind, rlConfig, rlWait>>
  /\ UNCHANGED NotLimiter

\* Date.now() advances by one tick
RLTick ==
  /\ rlElapsed' = IF rlKind = "tokenBucket"
                  THEN Least(rlElapsed + LimiterTickMs, TB_fullAfter(rlConfig))
                  ELSE rlElapsed
  /\ rlStamps' = RL_older(rlStamps, WindowSize)
  /\ rlHist' = SelectSeq(RL_older(rlHist, WindowSize), LAMBDA age : age < WindowSize)
  /\ UNCHANGED <<rlKind, rlConfig, rlTokens, rlWait, rlLast, rlCalls>>
  /\ UNCHANGED NotLimiter

NextLimiter ==
  \/ RLAllowRequest
  \/ RLWaitForSlot
  \/ RLPollAny
  \/ RLReset
  \/ RLTick

InitSpecLimiter ==
  /\ now = 0
  /\ InitBreakerIdle
  /\ InitPortfolioIdle
  /\ InitMergeIdle
  /\ InitAggregationIdle
  /\ InitSyncIdle
  /\ InitLimiter
  /\ InitOverlapIdle
  /\ InitBusIdle
  /\ InitRegistryIdle
  /\ InitStorageIdle
  /\ InitRefreshIdle

SpecLimiter == InitSpecLimiter /\ [][NextLimiter]_vars

\* the timers of the sleeping callers fire and the clock advances
LimiterFairness ==
  /\ WF_vars(RLTick)
  /\ \A c \in Callers : WF_vars(RLPoll(c))

SpecLimiterFair == SpecLimiter /\ LimiterFairness

\* TokenBucketRateLimiter.getStats(): refillTokens(), then the statistics
RLGetStats ==
  LET r == TB_refillTokens(rlTokens, rlElapsed, rlConfig) IN
  /\ rlKind = "tokenBucket"
  /\ rlTokens' = r.tokens
  /\ rlElapsed' = r.elapsed
  /\ rlLast' = [op |-> "getStats",
                ret |-> IF r.tokens = 0 THEN "limited" ELSE "notLimited",
                caller |-> NoCaller, waited |-> FALSE]
  /\ UNCHANGED <<rlKind, rlConfig, rlStamps, rlHist, rlWait, rlCalls>>
  /\ UNCHANGED NotLimiter

\* TokenBucketRateLimiter.updateConfig(config): the new config, then reset()
RLUpdateConfig ==
  \E config \in RateLimitConfig :
    /\ rlKind = "tokenBucket"
    /\ rlCalls < MaxLimiterCalls
    /\ rlCalls' = rlCalls + 1
    /\ rlConfig' = config
    /\ rlTokens' = RL_maxTokens(config)
    /\ rlElapsed' = 0
    /\ rlStamps' = <<>>
    /\ rlHist' = <<>>
    /\ rlLast' = [op |-> "updateConfig", ret |-> "void", caller |-> NoCaller,
                  waited |-> FALSE]
    /\ UNCHANGED <<rlKind, rlWait>>
    /\ UNCHANGED NotLimiter

NextBucket ==
  \/ RLAllowRequest
  \/ RLWaitForSlot
  \/ RLPollAny
  \/ RLReset
  \/ RLGetStats
  \/ RLUpdateConfig
  \/ RLTick

InitSpecBucket ==
  /\ InitSpecLimiter
  /\ rlKind = "tokenBucket"

SpecBucket == InitSpecBucket /\ [][NextBucket]_vars

\* =================================================================
\* InMemoryEventBus
\* =================================================================

MaxSubscriptions == 2   \* subscribe / subscribeAll calls made on one bus

\* event.eventType of the events published
EventTypes == {"AssetMerged", "AssetPriceUpdated"}

\* the handler functions: one returns, one throws, one returns a promise
\* that rejects
EventHandlers == {"returns", "throws", "rejects"}

\* Set.add / Set.delete on a Set kept in insertion order
SetHas(set, x) == \E i \in 1..Len(set) : set[i] = x
SetAdd(set, x) == IF SetHas(set, x) THEN set ELSE Append(set, x)
SetDelete(set, x) == SelectSeq(set, LAMBDA y : y # x)

\* the Set.forEach of publish over one handler set: each handler is called
\* inside try/catch, a returned promise gets a catch handler
RECURSIVE Mut_forEach_noCatch(_, _, _)
Mut_forEach_noCatch(handlers, via, done) ==
  IF handlers = <<>> \/ done.threw THEN done
  ELSE LET handler == Head(handlers)
           called == Append(done.invoked, [handler |-> handler, via |-> via]) IN
       Mut_forEach_noCatch(Tail(handlers), via,
         [done EXCEPT !.invoked = called,
                      !.threw = (handler = "throws"),
                      !.logged = @ + (IF handler = "rejects" THEN 1 ELSE 0)])

RECURSIVE EB_forEach(_, _, _)
EB_forEach(handlers, via, done) ==
  IF handlers = <<>> THEN done
  ELSE LET handler == Head(handlers)
           called == Append(done.invoked, [handler |-> handler, via |-> via]) IN
       EB_forEach(Tail(handlers), via,
         [done EXCEPT !.invoked = called,
                      !.logged = @ + (IF handler = "returns" THEN 0 ELSE 1)])

\* publish(event): the handlers of the event's type, then the global ones
EB_publish(sets, handlers, global, type) ==
  LET start == [invoked |-> <<>>, threw |-> FALSE, logged |-> 0]
      typed == IF MapHas(handlers, type)
               THEN EB_forEach(sets[MapGet(handlers, type)], "type", start)
               ELSE start
  IN IF typed.threw THEN typed ELSE EB_forEach(global, "global", typed)

\* the unsubscribe function returned by subscribe(eventType, handler): it
\* closes over the Set object that held the type's handlers at that time
EB_unsubscribe(sets, handlers, handle) ==
  LET cleared == [sets EXCEPT ![handle.set] = SetDelete(@, handle.handler)] IN
  [sets |-> cleared,
   handlers |-> IF cleared[handle.set] = <<>>
                THEN MapDelete(handlers, handle.type) ELSE handlers]

\* the (event type, handler) pairs and global handlers publish would call
Subscribed ==
  UNION { { [type |-> ebHandlers[i].key, handler |-> h] :
              h \in Range(ebSets[ebHandlers[i].val]) } :
          i \in 1..Len(ebHandlers) }
  \cup { [type |-> "all", handler |-> h] : h \in Range(ebGlobal) }

\* publish(event)
EBPublish ==
  \E type \in EventTypes :
    /\ ebLast' = [op |-> "publish", type |-> type]
                   @@ EB_publish(ebSets, ebHandlers, ebGlobal, type)
    /\ UNCHANGED <<ebSets, ebHandlers, ebGlobal, ebHandles, NotBus>>

\* subscribe(eventType, handler)
EBSubscribe ==
  \E type \in EventTypes, handler \in EventHandlers :
    LET fresh == ~MapHas(ebHandlers, type)
        set == IF fresh THEN Len(ebSets) + 1 ELSE MapGet(ebHandlers, type)
        sets == IF fresh THEN Append(ebSets, <<>>) ELSE ebSets IN
    /\ Len(ebHandles) < MaxSubscriptions
    /\ ebSets' = [sets EXCEPT ![set] = SetAdd(@, handler)]
    /\ ebHandlers' = IF fresh THEN MapSet(ebHandlers, type, set) ELSE ebHandlers
    /\ ebHandles' = Append(ebHandles,
                      [type |-> type, handler |-> handler, set |-> set,
                       called |-> FALSE])
    /\ ebLast' = [op |-> "subscribe", type |-> type, handler |-> handler]
    /\ UNCHANGED <<ebGlobal, NotBus>>

\* subscribeAll(handler)
EBSubscribeAll ==
  \E handler \in EventHandlers :
    /\ Len(ebHandles) < MaxSubscriptions
    /\ ebGlobal' = SetAdd(ebGlobal, handler)
    /\ ebHandles' = Append(ebHandles,
                      [type |-> "all", handler |-> handler, set |-> 0,
                       called |-> FALSE])
    /\ ebLast' = [op |-> "subscribeAll", type |-> "all", handler |-> handler]
    /\ UNCHANGED <<ebSets, ebHandlers, NotBus>>

\* a call of one of the unsubscribe functions handed out
EBUnsubscribe ==
  \E i \in 1..Len(ebHandles) :
    LET handle == ebHandles[i]
        u == EB_unsubscribe(ebSets, ebHandlers, handle) IN
    /\ IF handle.type = "all"
       THEN /\ ebGlobal' = SetDelete(ebGlobal, handle.handler)
            /\ UNCHANGED <<ebSets, ebHandlers>>
       ELSE /\ ebSets' = u.sets
            /\ ebHandlers' = u.handlers
            /\ UNCHANGED ebGlobal
    /\ ebHandles' = [ebHandles EXCEPT ![i].called = TRUE]
    /\ ebLast' = [op |-> "unsubscribe", type |-> handle.type,
                  handler |-> handle.handler, again |-> handle.called,
                  before |-> Subscribed]
    /\ UNCHANGED NotBus

\* clear()
EBClear ==
  /\ ebHandlers' = <<>>
  /\ ebGlobal' = <<>>
  /\ ebLast' = [op |-> "clear"]
  /\ UNCHANGED <<ebSets, ebHandles, NotBus>>

NextBus ==
  \/ EBPublish
  \/ EBSubscribe
  \/ EBSubscribeAll
  \/ EBUnsubscribe
  \/ EBClear

InitSpecBus ==
  /\ now = 0
  /\ InitBreakerIdle
  /\ InitPortfolioIdle
  /\ InitMergeIdle
  /\ InitAggregationIdle
  /\ InitSyncIdle
  /\ InitLimiterIdle
  /\ InitOverlapIdle
  /\ InitBus
  /\ InitRegistryIdle
  /\ InitStorageIdle
  /\ InitRefreshIdle

SpecBus == InitSpecBus /\ [][NextBus]_vars

\* =================================================================
\* AddressRegistryService
\* =================================================================

MaxAddressCalls == 2   \* addAddress / removeAddress calls made

\* the chain arguments: three named chains, one spelt with a capital, and
\* a chain the service does not know
RegistryChains == {"ethereum", "Polygon", "solana", "bitcoin", "cosmos"}

\* the address arguments: an EVM address in checksum case and in lower
\* case, a truncated one, a Solana address, a Bitcoin P2PKH address, and
\* the empty string
RegistryAddresses ==
  { "0x52908400098527886E0F7030069857D2E4169EE7",
    "0x52908400098527886e0f7030069857d2e4169ee7",
    "0x5290",
    "4Nd1mBQtrMJVYVfKf2PJy9NZUZdTAsp7D4xWLs4gDB4T",
    "1A1zP1eP5QGefi2DMPTfTL5SLmv7DivfNa",
    "" }

\* the chains validateAddress and normalizeAddress treat as EVM
EVMChains == {"ethereum", "polygon", "arbitrum", "optimism", "binance"}

\* /^0x[a-fA-F0-9]{40}$/ on the addresses above
AR_validateEVMAddress(address) ==
  address \in { "0x52908400098527886E0F7030069857D2E4169EE7",
                "0x52908400098527886e0f7030069857d2e4169ee7" }

\* /^[1-9A-HJ-NP-Za-km-z]{32,44}$/ on the addresses above: the Bitcoin
\* address is base58 of 34 characters as well
AR_validateSolanaAddress(address) ==
  address \in { "4Nd1mBQtrMJVYVfKf2PJy9NZUZdTAsp7D4xWLs4gDB4T",
                "1A1zP1eP5QGefi2DMPTfTL5SLmv7DivfNa" }

\* the three Bitcoin patterns on the addresses above
AR_validateBitcoinAddress(address) ==
  address = "1A1zP1eP5QGefi2DMPTfTL5SLmv7DivfNa"

\* validateAddress(chain, address)
AR_validateAddress(chain, address) ==
  LET c == toLowerCase(chain) IN
  CASE c \in EVMChains -> AR_validateEVMAddress(address)
    [] c = "solana" -> AR_validateSolanaAddress(address)
    [] c = "bitcoin" -> AR_validateBitcoinAddress(address)
    [] OTHER -> Len(address) > 0 /\ Len(address) < 100

\* normalizeAddress(chain, address)
Mut_normalizeAddress_lowerCasesAll(chain, address) == toLowerCase(address)

AR_normalizeAddress(chain, address) ==
  IF toLowerCase(chain) \in EVMChains THEN toLowerCase(address) ELSE address

AddressEvent(type, chain, address) ==
  [type |-> type, chain |-> chain, address |-> address]

\* the call may start when the one before has run to its end
RegistryFree ==
  /\ arCall.phase \notin {"saving", "stored"}
  /\ arCalls < MaxAddressCalls

\* addAddress(chain, address) up to `await this.addressRepository.save`:
\* an address that fails validateAddress ends the call with the Error
ARAddAddress ==
  \E chain \in RegistryChains, address \in RegistryAddresses :
    /\ RegistryFree
    /\ arCalls' = arCalls + 1
    /\ arCall' =
         [op |-> "addAddress", chain |-> chain, address |-> address,
          store0 |-> arStore, events0 |-> arEvents,
          phase |-> IF AR_validateAddress(chain, address)
                    THEN "saving" ELSE "invalid",
          normalized |-> IF AR_validateAddress(chain, address)
                         THEN AR_normalizeAddress(chain, address) ELSE ""]
    /\ UNCHANGED <<arStore, arEvents, arEmitter, NotRegistry>>

\* addressRepository.save(chain, normalizedAddress, fullMetadata) settles:
\* the entry is written, or the repository fails and the call with it
ARRepositorySave ==
  /\ arCall.phase = "saving"
  /\ \E outcome \in {"stored", "saveFailed"} :
       /\ arCall' = [arCall EXCEPT !.phase = outcome]
       /\ arStore' = IF outcome = "stored"
                     THEN arStore \cup {[chain |-> arCall.chain,
                                         address |-> arCall.normalized]}
                     ELSE arStore
  /\ UNCHANGED <<arEvents, arEmitter, arCalls, NotRegistry>>

\* addAddress after the save: the event, when an emitter was given
AREmitAdded ==
  /\ arCall.phase = "stored"
  /\ arCall' = [arCall EXCEPT !.phase = "added"]
  /\ arEvents' = IF arEmitter
                 THEN Append(arEvents, AddressEvent("AddressAdded", arCall.chain,
                                                    arCall.normalized))
                 ELSE arEvents
  /\ UNCHANGED <<arStore, arEmitter, arCalls, NotRegistry>>

\* removeAddress(chain, address)
ARRemoveAddress ==
  \E chain \in RegistryChains, address \in RegistryAddresses :
    LET normalized == AR_normalizeAddress(chain, address) IN
    /\ RegistryFree
    /\ arCalls' = arCalls + 1
    /\ arStore' = arStore \ {[chain |-> chain, address |-> normalized]}
    /\ arEvents' = IF arEmitter
                   THEN Append(arEvents,
                               AddressEvent("AddressRemoved", chain, normalized))
                   ELSE arEvents
    /\ arCall' = [op |-> "removeAddress", chain |-> chain, address |-> address,
                  store0 |-> arStore, events0 |-> arEvents,
                  phase |-> "removed", normalized |-> normalized]
    /\ UNCHANGED <<arEmitter, NotRegistry>>

NextRegistry ==
  \/ ARAddAddress
  \/ ARRepositorySave
  \/ AREmitAdded
  \/ ARRemoveAddress

InitSpecRegistry ==
  /\ now = 0
  /\ InitBreakerIdle
  /\ InitPortfolioIdle
  /\ InitMergeIdle
  /\ InitAggregationIdle
  /\ InitSyncIdle
  /\ InitLimiterIdle
  /\ InitOverlapIdle
  /\ InitBusIdle
  /\ arStore = {}
  /\ arEvents = <<>>
  /\ arEmitter \in BOOLEAN
  /\ arCall = NoRegistryCall
  /\ arCalls = 0
  /\ InitStorageIdle
  /\ InitRefreshIdle

SpecRegistry == InitSpecRegistry /\ [][NextRegistry]_vars

(***************************************************************************)
(* LocalStoragePortfolioRepository: save and findById of a                 *)
(* PortfolioAggregate through its JSON snapshot.  The aggregate stored is  *)
(* the one of pfAssets, pfSources and pfLastUpdated.                       *)
(***************************************************************************)

\* the id and userId of the aggregate that is saved, and an id never saved
StoredId == "portfolio_u1"

StoredUser == "u1"

OtherId == "portfolio_u2"

\* the assets the stored aggregate is built from
StoredAssets ==
  { a \in AssetPool :
      /\ a.amount = 1
      /\ \/ a.id = "a" /\ a.symbol = "ETH" /\ a.type = "crypto"
         \/ a.id = "b" /\ a.chain = "ethereum" /\ a.contractAddress = "0xAB" }

\* JSON.stringify of a Date (Date.prototype.toJSON: the ISO string of its
\* millisecond value), and new Date(string) of such a string
Date_toJSON(t) == <<"iso", t>>

Date_fromJSON(str) == str[2]

\* PortfolioAggregate.toJSON() as JSON.stringify / JSON.parse leave it; the
\* totalValue entry is not read back and is left out
Portfolio_toJSON(id, userId, assets, sources, lastUpdated) ==
  [id |-> id, userId |-> userId, assets |-> MapValues(assets),
   sources |-> sources, lastUpdated |-> Date_toJSON(lastUpdated)]

\* new PortfolioAggregate(params) with params.lastUpdated given: the
\* addAsset loop of the constructor writes _lastUpdated = new Date()
Portfolio_construct(params, t) ==
  [id |-> params.id, userId |-> params.userId,
   assets |-> AddAll(<<>>, params.assets),
   sources |-> params.sources,
   lastUpdated |-> IF params.assets # <<>> THEN t ELSE params.lastUpdated]

\* LocalStoragePortfolioRepository.deserialize(data)
LS_deserialize(data, t) ==
  Portfolio_construct(
    [id |-> data.id, userId |-> data.userId,
     assets |-> [i \in 1..Len(data.assets) |-> AssetEntity(data.assets[i])],
     sources |-> data.sources,
     lastUpdated |-> Date_fromJSON(data.lastUpdated)], t)

\* save: findIndex by id, then replace or push
LS_save(portfolios, serialized) ==
  IF \E i \in 1..Len(portfolios) : portfolios[i].id = serialized.id
  THEN [i \in 1..Len(portfolios) |->
          IF portfolios[i].id = serialized.id THEN serialized ELSE portfolios[i]]
  ELSE Append(portfolios, serialized)

InitStorage == InitStorageIdle

\* addAsset(asset) on the live aggregate
LSAddAsset ==
  \E asset \in StoredAssets :
    /\ pfAssets' = Portfolio_addAsset(pfAssets, asset)
    /\ HeldTotal(pfAssets') <= MaxTotal
    /\ pfLastUpdated' = now
    /\ pfCall' = [op |-> "addAsset", ret |-> "void"]
    /\ UNCHANGED <<now, pfSources, lsVars, NotStorage>>

\* addSource(source) on the live aggregate
LSAddSource ==
  \E source \in IntegrationSource :
    /\ pfSources' = pfSources \cup {source}
    /\ pfLastUpdated' = now
    /\ pfCall' = [op |-> "addSource", ret |-> "void"]
    /\ UNCHANGED <<now, pfAssets, lsVars, NotStorage>>

\* save(portfolio)
LSSave ==
  /\ lsStorage' =
       LS_save(lsStorage,
               Portfolio_toJSON(StoredId, StoredUser, pfAssets, pfSources,
                                pfLastUpdated))
  /\ pfCall' = [op |-> "save", ret |-> "void"]
  /\ UNCHANGED <<now, pfAssets, pfSources, pfLastUpdated, lsFound, NotStorage>>

\* findById(id)
LSFindById ==
  \E id \in {StoredId, OtherId} :
    /\ lsFound' =
         IF \E i \in 1..Len(lsStorage) : lsStorage[i].id = id
         THEN LET found == lsStorage[CHOOSE i \in 1..Len(lsStorage) :
                                       lsStorage[i].id = id] IN
              [found |-> TRUE, portfolio |-> LS_deserialize(found, now),
               snapshot |-> found]
         ELSE NotLoaded
    /\ pfCall' = [op |-> "findById", ret |-> id]
    /\ UNCHANGED <<now, pfAssets, pfSources, pfLastUpdated, lsStorage, NotStorage>>

LSTick ==
  /\ now < MaxTime
  /\ now' = now + 1
  /\ UNCHANGED <<pfVars, lsVars, NotStorage>>

NextStorage ==
  \/ LSAddAsset
  \/ LSAddSource
  \/ LSSave
  \/ LSFindById
  \/ LSTick

InitSpecStorage ==
  /\ now = 0
  /\ InitBreakerIdle
  /\ InitPortfolioIdle
  /\ InitMergeIdle
  /\ InitAggregationIdle
  /\ InitSyncIdle
  /\ InitLimiterIdle
  /\ InitOverlapIdle
  /\ InitBusIdle
  /\ InitRegistryIdle
  /\ InitStorage
  /\ InitRefreshIdle

SpecStorage == InitSpecStorage /\ [][NextStorage]_vars

\* -----------------------------------------------------------------
\* Reconciliation and portfolio: claims
\* -----------------------------------------------------------------

\* the same-asset predicate as the specification states it: equal chain
\* tags and either both contract addresses present and equal ignoring
\* letter case, or both absent and the symbols equal
SameAssetPredicate(a, b) ==
  /\ a.chain = b.chain
  /\ \/ /\ a.contractAddress # NoContract
        /\ b.contractAddress # NoContract
        /\ toLowerCase(a.contractAddress) = toLowerCase(b.contractAddress)
     \/ /\ a.contractAddress = NoContract
        /\ b.contractAddress = NoContract
        /\ a.symbol = b.symbol

\* the asset key as the specification states it
SpecAssetKey(a) ==
  << IF a.chain # NoChain THEN a.chain ELSE "unknown",
     toUpperCase(a.symbol),
     IF a.contractAddress # NoContract
     THEN toLowerCase(a.contractAddress) ELSE "native" >>

Held == { pfAssets[i].val : i \in 1..Len(pfAssets) }

(* C1: after any sequence of addAsset, removeAsset, addSource, reconcile,   *)
(* mergePortfolio and clear no two assets held by the portfolio are the     *)
(* same asset.  Two entries count as the same asset here only when they     *)
(* share the asset key and AssetEntity.isSameAsset holds of them as well,   *)
(* so a violation does not rest on the two notions differing.               *)
C1_NoTwoSameAssets ==
  \A i \in 1..Len(pfAssets), j \in 1..Len(pfAssets) :
    (i # j) =>
      ~( /\ SpecAssetKey(pfAssets[i].val) = SpecAssetKey(pfAssets[j].val)
         /\ Asset_isSameAsset(pfAssets[i].val, pfAssets[j].val) )

(* C4: addAsset merges the incoming asset into an existing one exactly      *)
(* when the pair satisfies the same-asset predicate (so never when exactly  *)
(* one of the two has a contract address, and always when the contract     *)
(* addresses differ only in letter case).                                   *)
C4_AddAssetMergesIffSameAsset ==
  [][ \A asset \in AssetPool :
        ( /\ pfCall'.op = "addAsset"
          /\ pfAssets' = Portfolio_addAsset(pfAssets, asset)
          /\ pfCall'.ret = ( IF Portfolio_findSimilarAsset(pfAssets, asset) # 0
                             THEN "merged" ELSE "inserted" ) )
        => ( (pfCall'.ret = "merged")
               <=> (\E e \in Held : SameAssetPredicate(e, asset)) )
    ]_vars

\* every two assets of the list satisfy the same-asset predicate
AllSameAsset(list) ==
  \A i \in 1..Len(list), j \in 1..Len(list) : SameAssetPredicate(list[i], list[j])

(* C5: for every pair (a, b) that satisfies the same-asset predicate both   *)
(* a.merge(b) and mergeAssets(a, b) return an asset whose amount is         *)
(* a.amount + b.amount, and reconciling a list of duplicates of one asset   *)
(* yields one asset holding the sum of all the amounts.                     *)
C5_MergeSumsAmounts ==
  /\ ( /\ mgOut.op \in {"merge", "mergeAssets"}
       /\ SameAssetPredicate(mgList[1], mgList[2]) )
     => ( /\ ~mgOut.threw
          /\ mgOut.assets[1].amount = mgList[1].amount + mgList[2].amount )
  /\ ( mgOut.op = "reconcile" /\ AllSameAsset(mgList) )
     => ( /\ ~mgOut.threw
          /\ Len(mgOut.assets) = 1
          /\ mgOut.assets[1].amount = SumAmounts(mgList) )

\* -----------------------------------------------------------------
\* aggregatePortfolio: claims
\* -----------------------------------------------------------------

\* the amount a list of assets holds under one asset key
AmountFor(list, key) ==
  SumAmounts(SelectSeq(list, LAMBDA a : SpecAssetKey(a) = key))

\* the assets are the reconciled union of the fetched ones: one asset per
\* asset key, holding what the fetched assets of that key hold together
ReconciledUnion(assets, fetched) ==
  /\ \A i \in 1..Len(assets), j \in 1..Len(assets) :
       (i # j) => SpecAssetKey(assets[i]) # SpecAssetKey(assets[j])
  /\ \A a \in Range(assets) \cup Range(fetched) :
       AmountFor(assets, SpecAssetKey(a)) = AmountFor(fetched, SpecAssetKey(a))

(* C2: a call that missed the cache and in which exactly one target         *)
(* provider threw (from connect or from fetchAssets) still completes: it    *)
(* is not rejected, the portfolio it returns has been saved, its sources    *)
(* do not contain the failed provider and its assets are the reconciled     *)
(* union of the assets the other providers returned.                        *)
C2_OneFailureStillCompletes ==
  ( /\ agCall.via = "fetch"
    /\ agCall.phase \in {"done", "rejected"}
    /\ Cardinality(agCall.failed) = 1 )
  => ( /\ agCall.phase = "done"
       /\ agLog.saved
       /\ agCall.portfolio \in agRepo
       /\ agCall.portfolio.sources \cap agCall.failed = {}
       /\ ReconciledUnion(MapValues(agCall.portfolio.assets), agCall.fetched) )

(* C3: a call with forceRefresh = false, made while the repository holds a  *)
(* portfolio for the derived id whose lastUpdated is less than 5 minutes    *)
(* old, returns that stored portfolio unchanged, contacts no provider and   *)
(* not the valuator, and saves nothing.                                     *)
C3_FreshCacheReturnedUnchanged ==
  [][ \A options \in AggregationOptions :
        LET id == IF options.userId # NoUser
                  THEN [user |-> options.userId, ms |-> Undefined]
                  ELSE [user |-> NoUser, ms |-> now]
            fresh == { p \in agRepo :
                         p.id = id /\ now - p.lastUpdated < 5 * 60 * 1000 }
        IN ( /\ agCall.phase = "idle"
             /\ agCall'.phase # "idle"
             /\ agCall'.options = options
             /\ ~options.forceRefresh
             /\ fresh # {} )
           => ( /\ agCall'.phase = "done"
                /\ agCall'.portfolio \in fresh
                /\ agRepo' = agRepo
                /\ agConnected' = agConnected
                /\ agLog' = [providers |-> {}, valuator |-> FALSE, saved |-> FALSE] )
    ]_vars

\* a stored portfolio with assets, 150 s old, returned from the cache
C3_Witness ==
  /\ agCall.phase = "done"
  /\ agCall.via = "cache"
  /\ ~agCall.options.forceRefresh
  /\ agCall.portfolio \in agRepo
  /\ agCall.portfolio.assets # <<>>
  /\ now - agCall.portfolio.lastUpdated = TickMs
  /\ agLog.providers = {}

\* -----------------------------------------------------------------
\* CircuitBreaker: claims
\* -----------------------------------------------------------------

\* which call produced a step (the clock stands still during a call)
FailureStep ==
  now' = now /\ cbCall'.op \in {"recordFailure", "executeRejected"}

SuccessStep ==
  now' = now /\ cbCall'.op \in {"recordSuccess", "executeResolved"}

AdmissionStep ==
  now' = now /\ cbCall'.op \in {"allowRequest", "execute"}

InspectionStep ==
  now' = now /\ cbCall'.op \in {"getState", "getStats", "allowRequest", "execute"}

(* C6: starting from CLOSED the breaker becomes OPEN exactly when            *)
(* failureThreshold failures have been recorded consecutively (no success   *)
(* or reset in between), and then nextRetryTime = now + recoveryTimeout;    *)
(* with fewer consecutive failures it stays CLOSED and admits requests.     *)
C6_ClosedOpensAtThreshold ==
  /\ [](cb.state = "CLOSED" => cbConsec < cbConfig.failureThreshold)
  /\ [][ /\ (cb.state = "CLOSED" /\ FailureStep) =>
              /\ cb'.state \in {"CLOSED", "OPEN"}
              /\ (cb'.state = "OPEN") <=> (cbConsec' >= cbConfig.failureThreshold)
              /\ (cb'.state = "OPEN") =>
                    cb'.nextRetryTime = now + cbConfig.recoveryTimeout
         /\ (cb.state = "CLOSED" /\ cb'.state # "CLOSED") =>
              (FailureStep /\ cb'.state = "OPEN")
         /\ (cb.state = "CLOSED" /\ AdmissionStep) => cbCall'.ret = "admitted"
      ]_vars

\* opened by the second of two consecutive failures that followed a success
C6_Witness ==
  /\ cb.state = "OPEN"
  /\ cbCall.op \in {"recordFailure", "executeRejected"}
  /\ cbConfig.failureThreshold = 2
  /\ cbConsec = 2
  /\ cb.lastSuccessTime # Undefined
  /\ cb.nextRetryTime = now + cbConfig.recoveryTimeout

(* C7: while OPEN and now < nextRetryTime every allowRequest() and every    *)
(* execute() is rejected and the state stays OPEN; the first inspection at  *)
(* or after nextRetryTime moves it to HALF_OPEN with halfOpenAttempts = 0   *)
(* and the request is admitted.                                             *)
C7_OpenRejectsUntilRetryTime ==
  [][ (cb.state = "OPEN" /\ InspectionStep) =>
        IF now < cb.nextRetryTime
        THEN /\ cb'.state = "OPEN"
             /\ AdmissionStep =>
                  (cbCall'.ret = "rejected" /\ cbInflight' = cbInflight)
        ELSE /\ cb'.state = "HALF_OPEN"
             /\ cb'.halfOpenAttempts = 0
             /\ AdmissionStep => cbCall'.ret = "admitted"
    ]_vars

\* an execute() admitted as the first probe exactly at nextRetryTime
C7_Witness ==
  /\ cb.state = "HALF_OPEN"
  /\ cbCall = [op |-> "execute", ret |-> "admitted"]
  /\ cb.halfOpenAttempts = 0
  /\ cbInflight.probes = 1
  /\ now = cb.nextRetryTime

(* C8: in HALF_OPEN the breaker stays HALF_OPEN while fewer than            *)
(* halfOpenRetries successes have been recorded, and the                    *)
(* halfOpenRetries-th success moves it to CLOSED with failures = 0.         *)
C8_HalfOpenClosesAfterRetries ==
  [][ (cb.state = "HALF_OPEN" /\ SuccessStep) =>
        IF cbProbeOk' >= cbConfig.halfOpenRetries
        THEN cb'.state = "CLOSED" /\ cb'.failures = 0
        ELSE cb'.state = "HALF_OPEN"
    ]_vars

\* closed by the second probe success, after failures had been counted
C8_Witness ==
  /\ cb.state = "CLOSED"
  /\ cbCall.op \in {"recordSuccess", "executeResolved"}
  /\ cbConfig.halfOpenRetries = 2
  /\ cbProbeOk = 2
  /\ cb.lastFailureTime # Undefined
  /\ cb.failures = 0

(* C9: any failure recorded in HALF_OPEN moves the breaker back to OPEN     *)
(* with nextRetryTime = now + recoveryTimeout, however many probe           *)
(* successes preceded it, and requests are rejected until that time.        *)
C9_HalfOpenFailureReopens ==
  [][ (cb.state = "HALF_OPEN" /\ FailureStep) =>
        /\ cb'.state = "OPEN"
        /\ cb'.nextRetryTime = now + cbConfig.recoveryTimeout
        /\ \A t \in now..(cb'.nextRetryTime - 1) :
              ~CB_admits(CB_getState(cb', t), cbConfig)
    ]_vars

\* re-opened by a failure that followed a probe success
C9_Witness ==
  /\ cb.state = "OPEN"
  /\ cbCall.op \in {"recordFailure", "executeRejected"}
  /\ cbProbeOk >= 1
  /\ cbProbeOk < cbConfig.halfOpenRetries
  /\ cb.failures > cbConfig.failureThreshold
  /\ cb.nextRetryTime = now + cbConfig.recoveryTimeout

(* C10: in HALF_OPEN at most halfOpenRetries probes are admitted at a time: *)
(* once halfOpenRetries admitted probes are in flight, a further execute()  *)
(* or allowRequest() is rejected.                                           *)
C10_HalfOpenProbeLimit ==
  [][ ( /\ AdmissionStep
        /\ cb'.state = "HALF_OPEN"
        /\ InflightAfterInspect(cb, cb').probes >= cbConfig.halfOpenRetries )
      => cbCall'.ret = "rejected"
    ]_vars

\* execute() calls suspended at `await fn()`: fn has run and not settled
Suspended == cbInflight.probes + cbInflight.other

(* C11: execute(fn) on an inadmissible breaker (OPEN before its retry time) *)
(* throws the circuit error without running fn and leaves every field of    *)
(* the breaker as it was; an admitted execute runs fn once and records      *)
(* nothing until fn settles; when fn resolves exactly one success is        *)
(* recorded and when fn rejects exactly one failure, in whatever state the  *)
(* breaker then is.                                                         *)
C11_ExecuteRecordsOutcomeOnce ==
  [][ /\ (now' = now /\ cbCall'.op = "execute") =>
           /\ (cbCall'.ret = "rejected") <=>
                (cb.state = "OPEN" /\ now < cb.nextRetryTime)
           /\ (cbCall'.ret = "rejected") =>
                (cb' = cb /\ cbInflight' = cbInflight)
           /\ (cbCall'.ret = "admitted") =>
                /\ Suspended' = Suspended + 1
                /\ cb'.failures = cb.failures
                /\ cb'.successes = cb.successes
      /\ (now' = now /\ cbCall'.op = "executeResolved") =>
           /\ Suspended' = Suspended - 1
           /\ cbCall'.ret = "ok"
           /\ cb'.successes = cb.successes + 1
           /\ cb'.lastSuccessTime = now
           /\ cb'.failures \in {cb.failures, 0}
           /\ cb'.lastFailureTime = cb.lastFailureTime
      /\ (now' = now /\ cbCall'.op = "executeRejected") =>
           /\ Suspended' = Suspended - 1
           /\ cbCall'.ret = "error"
           /\ cb'.failures = cb.failures + 1
           /\ cb'.lastFailureTime = now
           /\ cb'.successes = cb.successes
           /\ cb'.lastSuccessTime = cb.lastSuccessTime
    ]_vars

\* an execute() rejected by an OPEN breaker that an earlier execute(), whose
\* fn rejected while the breaker was already OPEN, had left untouched
C11_Witness ==
  /\ cbCall = [op |-> "execute", ret |-> "rejected"]
  /\ cb.state = "OPEN"
  /\ cb.successes >= 1
  /\ cb.failures > cbConfig.failureThreshold
  /\ Suspended = 0

(* C12: the state changes only along CLOSED -> OPEN, OPEN -> HALF_OPEN,     *)
(* HALF_OPEN -> CLOSED and HALF_OPEN -> OPEN, except by reset(); reset()    *)
(* from any state yields CLOSED with failures, successes and                *)
(* halfOpenAttempts at 0 and the three times cleared.                       *)
C12_StateMachineEdges ==
  [][ /\ (cb'.state # cb.state /\ ~(now' = now /\ cbCall'.op = "reset")) =>
           <<cb.state, cb'.state>> \in
              { <<"CLOSED", "OPEN">>, <<"OPEN", "HALF_OPEN">>,
                <<"HALF_OPEN", "CLOSED">>, <<"HALF_OPEN", "OPEN">> }
      /\ (now' = now /\ cbCall'.op = "reset") =>
           /\ cb'.state = "CLOSED"
           /\ cb'.failures = 0 /\ cb'.successes = 0 /\ cb'.halfOpenAttempts = 0
           /\ cb'.lastFailureTime = Undefined
           /\ cb'.lastSuccessTime = Undefined
           /\ cb'.nextRetryTime = Undefined
    ]_vars

\* reset() called in a HALF_OPEN episode while a probe was still suspended
C12_Witness ==
  /\ cbCall.op = "reset"
  /\ cb.state = "CLOSED"
  /\ cb.nextRetryTime = Undefined
  /\ cbInflight.probes > 0


\* C13: a cycle starts only when none is in flight, and an orchestrateSync
\* call made while a cycle is in flight fails with 'Sync already in progress',
\* contacts no provider and leaves breakers, limiters and metrics unchanged
C13_OneCycleInFlight ==
  [][ /\ (syCycles' # syCycles) => (~syGuard /\ syGuard')
      /\ (syGuard /\ syLast' # syLast /\ syLast'.op = "orchestrateSync") =>
           /\ syLast'.ret = "Sync already in progress"
           /\ UNCHANGED <<syGuard, syBreakers, sySlots, syMetrics, syCycle>>
    ]_vars

C13_Witness ==
  /\ syGuard
  /\ syLast.ret = "Sync already in progress"
  /\ syCycle.sources = <<"evm", "solana">>
  /\ syCycle.tasks["evm"] = "running"
  /\ syCycle.tasks["solana"] = "waiting"

InWindow == Len(rlHist)

\* C15: a token bucket with requestsPerMinute = R and burstLimit = B never
\* has more than max(R, B) admissions in a 60-second window
C15_TokenBucketWindowBound ==
  rlKind = "tokenBucket" =>
    InWindow <= Greatest(rlConfig.requestsPerMinute, rlConfig.burstLimit)

\* C16: a sliding window limiter admits a request if and only if fewer than
\* burstLimit (requestsPerMinute when unset) admissions lie in the preceding
\* 60 000 ms, so no 60-second window holds more admissions than that
C16_SlidingWindowAdmitsIffBelowLimit ==
  [][ rlKind = "slidingWindow" =>
        /\ InWindow' <= RL_maxTokens(rlConfig)
        /\ (rlCalls' # rlCalls /\ rlLast'.op \in {"allowRequest", "waitForSlot"}) =>
             /\ (rlLast'.ret \in {"admitted", "returned"})
                  <=> (InWindow < RL_maxTokens(rlConfig))
             /\ (rlLast'.ret \in {"admitted", "returned"})
                  <=> (rlHist' = Append(rlHist, 0))
        /\ \A c \in Callers :
             (rlWait[c] /\ ~rlWait'[c]) =>
                (InWindow < RL_maxTokens(rlConfig) /\ rlHist' = Append(rlHist, 0))
    ]_vars

C16_Witness ==
  /\ rlKind = "slidingWindow"
  /\ rlConfig.burstLimit = 2
  /\ rlLast = [op |-> "allowRequest", ret |-> "rejected", caller |-> NoCaller,
               waited |-> FALSE]
  /\ rlHist = <<LimiterTickMs, 0>>

\* C17: with requestsPerMinute > 0 every waitForSlot call returns in the end,
\* also with two callers waiting on the same limiter, and each return is
\* exactly one admission
C17_WaitForSlotReturns ==
  /\ \A c \in Callers : rlWait[c] ~> ~rlWait[c]
  /\ [][ \A c \in Callers :
           LET resumed  == rlWait[c] /\ ~rlWait'[c]
               atOnce   == /\ rlCalls' # rlCalls
                           /\ rlLast' = [op |-> "waitForSlot", ret |-> "returned",
                                         caller |-> c, waited |-> FALSE] IN
           (resumed \/ atOnce) =>
              /\ rlHist' = Append(rlHist, 0)
              /\ (rlKind = "tokenBucket") =>
                   (rlTokens' =
                      TB_refillTokens(rlTokens, rlElapsed, rlConfig).tokens - 1)
              /\ (rlKind = "slidingWindow") =>
                   (Len(rlStamps') = Len(SW_cleanOldRequests(rlStamps)) + 1)
       ]_vars

C17_Witness ==
  /\ rlLast.op = "waitForSlot" /\ rlLast.ret = "returned" /\ rlLast.waited
  /\ rlLast.caller = "c1"
  /\ rlWait["c2"]


\* C18: AssetReconciliationService.isSameAsset(a, b) is true if and only if
\* the chain tags are equal and either both contract addresses are present
\* and equal ignoring letter case, or both are absent and the symbols are
\* equal
C18_ReconIsSameAssetMatchesPredicate ==
  mgOut.op = "isSameAsset" =>
    (mgOut.same <=> SameAssetPredicate(mgList[1], mgList[2]))


\* the asset keys of a list, and the balance amount held under each key
KeysOf(list) == { SpecAssetKey(list[i]) : i \in 1..Len(list) }

KeyAmounts(list) == { <<SpecAssetKey(list[i]), list[i].amount>> : i \in 1..Len(list) }

C20_ReconcileIdempotent ==
  /\ mgOut.op = "reconcileAgain" =>
       /\ ~mgOut.threw
       /\ Len(mgOut.assets) = Len(mgOut.first)
       /\ KeyAmounts(mgOut.assets) = KeyAmounts(mgOut.first)
  /\ mgOut.op = "portfolioReconcileAgain" =>
       /\ ~mgOut.threw
       /\ mgOut.assets = mgOut.first

C20_Witness ==
  /\ mgOut.op = "portfolioReconcileAgain"
  /\ Len(mgList) = 3
  /\ Len(mgOut.first) = 2
  /\ mgOut.assets[1].amount > mgList[1].amount


\* C21: reconcile of a reordered list yields the same multiset of
\* (asset key, balance amount) pairs as reconcile of the list
C21_ReconcileOrderIndependent ==
  mgOut.op = "reconcileReordered" =>
    /\ mgOut.threw = mgOut.firstThrew
    /\ Len(mgOut.assets) = Len(mgOut.first)
    /\ KeyAmounts(mgOut.assets) = KeyAmounts(mgOut.first)

C21_Witness ==
  /\ mgOut.op = "reconcileReordered"
  /\ mgOut.how = "swap"
  /\ Len(mgList) = 3
  /\ Len(mgOut.assets) = 2
  /\ SpecAssetKey(mgList[1]) = SpecAssetKey(mgList[2])
  /\ mgList[1].amount # mgList[2].amount
  /\ mgOut.assets[1].amount = mgList[1].amount + mgList[2].amount


\* the price the merge rule gives two same assets: the price of the input
\* fetched later, the only price, or none
MergedPriceRule(a, b, merged) ==
  /\ (a.price # NoPrice /\ b.price # NoPrice) =>
       /\ a.fetchedAt > b.fetchedAt => merged.price = a.price
       /\ b.fetchedAt > a.fetchedAt => merged.price = b.price
       /\ merged.price \in {a.price, b.price}
  /\ (a.price # NoPrice /\ b.price = NoPrice) => merged.price = a.price
  /\ (a.price = NoPrice /\ b.price # NoPrice) => merged.price = b.price
  /\ (merged.price = NoPrice) <=> (a.price = NoPrice /\ b.price = NoPrice)

\* C22: the merged price of two same assets is the price of the input with
\* the later metadata.fetchedAt, the only price when one has one, and
\* undefined if and only if neither has a price
C22_MergedPriceIsLatestFetched ==
  (mgOut.op \in {"merge", "mergeAssets"} /\ ~mgOut.threw) =>
    MergedPriceRule(mgList[1], mgList[2], mgOut.assets[1])


\* balance amount times price value, summed over the held assets priced in
\* the currency
RECURSIVE ValueIn(_, _)
ValueIn(values, currency) ==
  IF values = <<>> THEN 0
  ELSE (IF Head(values).price # NoPrice /\ Head(values).price.currency = currency
        THEN Head(values).amount * Head(values).price.value ELSE 0)
       + ValueIn(Tail(values), currency)

\* C23: getTotalValue(currency) never throws, whatever assets and prices the
\* portfolio holds, and returns the sum of amount times price over exactly
\* the assets priced in the requested currency
C23_TotalValueNeverThrows ==
  pfCall.op = "getTotalValue" =>
    /\ pfCall.ret = "returned"
    /\ pfCall.total = ValueIn(MapValues(pfAssets), pfCall.currency)


\* the ids of the assets the portfolio holds
HeldIds == { e.id : e \in Held }

\* C24: removeAsset(x.id) of a held asset x removes x and advances
\* lastUpdated, after any prior operations including reconcile();
\* removeAsset of an id that no held asset has changes neither the assets
\* nor lastUpdated
C24_RemoveAssetById ==
  [][ \A id \in AssetIds :
        ( /\ pfCall'.op = "removeAsset"
          /\ pfAssets' = MapDelete(pfAssets, <<id>>)
          /\ pfCall'.ret = ( IF MapHas(pfAssets, <<id>>)
                             THEN "deleted" ELSE "absent" ) )
        => IF id \in HeldIds
           THEN /\ \A i \in 1..Len(pfAssets') : pfAssets'[i].val.id # id
                /\ Len(pfAssets') = Len(pfAssets) - 1
                /\ pfLastUpdated' = now
           ELSE /\ pfAssets' = pfAssets
                /\ pfLastUpdated' = pfLastUpdated
    ]_vars


\* how often an event occurs among the events a call has published
RECURSIVE Count(_, _)
Count(events, e) ==
  IF events = <<>> THEN 0
  ELSE (IF Head(events) = e THEN 1 ELSE 0) + Count(Tail(events), e)

LifecycleEvent(type) == [type |-> type]
SourceFailed(source) == [type |-> "IntegrationSourceFailed", source |-> source]

\* C25: an aggregatePortfolio call that misses the cache publishes
\* PortfolioAggregationStarted before it contacts a provider and then exactly
\* one terminal event: PortfolioAggregationCompleted after a successful save,
\* with exactly one IntegrationSourceFailed per failed provider, or
\* PortfolioAggregationFailed before the failure reaches the caller
C25_AggregationEvents ==
  \A c \in CallIds :
    LET call == cxCall[c]
        started == LifecycleEvent("PortfolioAggregationStarted")
        completed == LifecycleEvent("PortfolioAggregationCompleted")
        failed == LifecycleEvent("PortfolioAggregationFailed") IN
    call.via = "fetch" =>
      /\ call.events # <<>> /\ Head(call.events) = started
      /\ Count(call.events, started) = 1
      /\ call.phase \in {"fetching", "enriching"} =>
           Count(call.events, completed) + Count(call.events, failed) = 0
      /\ call.phase \in {"done", "returned"} =>
           /\ Count(call.events, completed) = 1
           /\ Count(call.events, failed) = 0
           /\ \A src \in Range(AG_sourcesToFetch(call.options)) :
                Count(call.events, SourceFailed(src))
                  = IF src \in call.failed THEN 1 ELSE 0
      /\ call.phase \in {"rejected", "failed"} =>
           /\ Count(call.events, failed) = 1
           /\ Count(call.events, completed) = 0


\* C26: a valuator failure during price enrichment is swallowed: the
\* reconciled portfolio is still saved and returned, with the prices the
\* providers supplied; a failure of portfolioRepository.save reaches the
\* caller
C26_ValuatorSwallowedSaveSurfaces ==
  \A c \in CallIds :
    LET call == cxCall[c] IN
    /\ (call.valuator = "throws" /\ call.save = "saved") =>
         /\ call.phase \in {"done", "returned"}
         /\ call.portfolio = call.reconciled
         /\ c \in Range(cxSaves)
    /\ (call.valuator = "throws" /\ call.phase \in {"rejected", "failed"}) =>
         call.save = "throws"
    /\ call.save = "throws" =>
         /\ call.phase \in {"rejected", "failed"}
         /\ c \notin Range(cxSaves)

C26_Witness ==
  /\ cxCall["first"].valuator = "throws"
  /\ cxCall["first"].phase = "returned"
  /\ \E i \in 1..Len(cxCall["first"].portfolio.assets) :
       cxCall["first"].portfolio.assets[i].val.price = [value |-> 2, timestamp |-> 0]
  /\ Repo_findById(agRepo, cxCall["first"].portfolio.id) = cxCall["first"].portfolio
  /\ cxCall["second"].save = "throws"
  /\ cxCall["second"].valuator = "prices"
  /\ cxCall["second"].phase = "failed"


\* a call that went to the providers and has its portfolio
Built(c) == cxCall[c].via = "fetch" /\ cxCall[c].phase \in {"done", "returned"}

\* every call started and over
AllOver == \A c \in CallIds : cxCall[c].phase \in {"returned", "failed"}

\* C27: aggregatePortfolio calls for the same userId that overlap build
\* their portfolios each from its own fetch results only, and once all
\* are over the repository holds the portfolio of the call that saved last
C27_OverlappingCallsIndependent ==
  /\ \A c \in CallIds :
       Built(c) =>
         LET call == cxCall[c] IN
         /\ call.portfolio.sources
              = Range(AG_sourcesToFetch(call.options)) \ call.failed
         /\ { e.id : e \in Range(MapValues(call.portfolio.assets)) }
              = { e.id : e \in Range(call.fetched) }
         /\ HeldTotal(call.portfolio.assets) = SumAmounts(call.fetched)
         /\ call.portfolio.id = AG_generatePortfolioId(call.options.userId, now)
  /\ (AllOver /\ cxSaves # <<>>) =>
       Repo_findById(agRepo, AG_generatePortfolioId("u1", now))
         = cxCall[cxSaves[Len(cxSaves)]].portfolio

C27_Witness ==
  /\ AllOver
  /\ cxSaves = <<"first", "second">>
  /\ cxCall["first"].via = "fetch" /\ cxCall["second"].via = "fetch"
  /\ ~cxCall["second"].options.forceRefresh
  /\ cxCall["first"].portfolio # cxCall["second"].portfolio
  /\ cxCall["first"].fetched # <<>> /\ cxCall["second"].fetched # <<>>
  /\ cxCall["first"].fetched # cxCall["second"].fetched


\* -----------------------------------------------------------------
\* Event bus: claims
\* -----------------------------------------------------------------

\* how often publish called the handler through the type set or as a
\* global subscriber
Invocations(handler, via) ==
  Cardinality({ i \in 1..Len(ebLast.invoked) :
                  ebLast.invoked[i] = [handler |-> handler, via |-> via] })

\* C28: publish(event) calls every handler subscribed to event.eventType
\* and every global subscriber once per subscription, also when a handler
\* throws or returns a promise that rejects, and publish does not throw;
\* handlers of other event types are not called
C28_PublishReachesEverySubscriber ==
  ebLast.op = "publish" =>
    /\ ~ebLast.threw
    /\ \A h \in EventHandlers :
         /\ Invocations(h, "type")
              = IF [type |-> ebLast.type, handler |-> h] \in Subscribed
                THEN 1 ELSE 0
         /\ Invocations(h, "global")
              = IF [type |-> "all", handler |-> h] \in Subscribed THEN 1 ELSE 0
    /\ Len(ebLast.invoked)
         = Cardinality({ s \in Subscribed : s.type \in {ebLast.type, "all"} })

C28_Witness ==
  /\ ebLast.op = "publish"
  /\ ebLast.invoked = << [handler |-> "throws", via |-> "type"],
                         [handler |-> "rejects", via |-> "global"] >>
  /\ ~ebLast.threw

\* C29: the unsubscribe function returned by subscribe or subscribeAll is
\* idempotent: its first call removes exactly its own subscription, any
\* later call changes nothing, so a handler subscribed to the same event
\* type in the meantime stays subscribed
C29_UnsubscribeIdempotent ==
  ebLast.op = "unsubscribe" =>
    IF ebLast.again
    THEN Subscribed = ebLast.before
    ELSE Subscribed
           = ebLast.before \ {[type |-> ebLast.type, handler |-> ebLast.handler]}


\* -----------------------------------------------------------------
\* Address registry: claims
\* -----------------------------------------------------------------

\* the address an entry is to be stored under: lower-cased on the EVM
\* chains, as given on Solana and Bitcoin
NormalizedAs(chain, address, stored) ==
  /\ toLowerCase(chain) \in EVMChains => stored = toLowerCase(address)
  /\ chain \in {"solana", "bitcoin"} => stored = address

\* C30: addAddress with an address that fails the chain's format check
\* fails with the invalid-address error, writes nothing and emits nothing;
\* with a valid address the entry is stored under the normalized address
\* (EVM lower-cased, Solana and Bitcoin unchanged) and only then is
\* AddressAdded emitted
C30_AddAddressValidatesThenStoresThenEmits ==
  arCall.op = "addAddress" =>
    LET entry == [chain |-> arCall.chain, address |-> arCall.normalized] IN
    /\ (arCall.phase = "invalid") <=> ~AR_validateAddress(arCall.chain, arCall.address)
    /\ arCall.phase \in {"invalid", "saving", "saveFailed"} =>
         arStore = arCall.store0 /\ arEvents = arCall.events0
    /\ arCall.phase \in {"stored", "added"} =>
         /\ NormalizedAs(arCall.chain, arCall.address, arCall.normalized)
         /\ arStore = arCall.store0 \cup {entry}
    /\ arCall.phase = "stored" => arEvents = arCall.events0
    /\ arCall.phase = "added" =>
         arEvents = IF arEmitter
                    THEN Append(arCall.events0,
                                AddressEvent("AddressAdded", arCall.chain,
                                             arCall.normalized))
                    ELSE arCall.events0

C30_Witness ==
  /\ arCall.op = "addAddress" /\ arCall.phase = "added"
  /\ arCall.chain = "Polygon"
  /\ arCall.address = "0x52908400098527886E0F7030069857D2E4169EE7"
  /\ arStore = { [chain |-> "solana",
                  address |-> "4Nd1mBQtrMJVYVfKf2PJy9NZUZdTAsp7D4xWLs4gDB4T"],
                 [chain |-> "Polygon",
                  address |-> "0x52908400098527886e0f7030069857d2e4169ee7"] }
  /\ Len(arEvents) = 2
  /\ arEvents[2].type = "AddressAdded"
  /\ arEvents[2].address = "0x52908400098527886e0f7030069857d2e4169ee7"


\* -----------------------------------------------------------------
\* Portfolio: further claims
\* -----------------------------------------------------------------

\* C31: a portfolio that holds at least one asset has a non-empty sources
\* set, after any sequence of addAsset, removeAsset, addSource, reconcile,
\* mergePortfolio and clear
C31_AssetsImplySources ==
  pfAssets # <<>> => pfSources # {}


\* -----------------------------------------------------------------
\* Sync orchestrator: further claims
\* -----------------------------------------------------------------

\* the sync attempts for a source that have failed so far: those counted by
\* the results loop and the one of the cycle in flight
FailedAttempts(s) ==
  syMetrics.sourceMetrics[s].failureCount
    + (IF s \in DOMAIN syCycle.tasks
          /\ Sync_settled(syCycle.tasks[s]) /\ syCycle.tasks[s] # "fulfilled"
       THEN 1 ELSE 0)

\* C32: each provider task's outcome reaches the provider's breaker exactly
\* once: the breaker has counted no more failures than sync attempts failed,
\* and it has left Closed only once failureThreshold attempts failed
C32_OutcomeRecordedOnce ==
  \A s \in DOMAIN syBreakers :
    /\ syBreakers[s].failures <= FailedAttempts(s)
    /\ syBreakers[s].state # "CLOSED" =>
         FailedAttempts(s) >= SyncBreakerConfig.failureThreshold


\* C33: a protected task checks the breaker first, then waits for a
\* rate-limit slot, then calls the provider inside breaker.execute; a task
\* that finds the breaker Open before its retry time fails with the
\* circuit-open error, its provider is not called and no rate-limit
\* admission is consumed for it
C33_BreakerThenSlotThenProvider ==
  [][ /\ (syCycles' # syCycles) =>
           \A s \in DOMAIN syCycle'.tasks \cap IntegrationSource :
             ( /\ syBreakers[s].state = "OPEN"
               /\ now < syBreakers[s].nextRetryTime )
             => syCycle'.tasks[s] = "circuitOpen"
      /\ \A s \in DOMAIN syCycle'.tasks \cap IntegrationSource :
           /\ syCycle'.tasks[s] = "circuitOpen" =>
                /\ sySlots'[s] = sySlots[s]
                /\ s \notin syCycle'.contacted
           /\ (s \in syCycle'.contacted /\ s \notin syCycle.contacted) =>
                /\ s \in DOMAIN syCycle.tasks
                /\ syCycle.tasks[s] = "waiting"
                /\ sySlots'[s] = sySlots[s] + 1
                /\ syCycle'.tasks[s] = "running"
           /\ sySlots'[s] # sySlots[s] =>
                (s \in DOMAIN syCycle.tasks /\ syCycle.tasks[s] = "waiting")
    ]_vars

C33_Witness ==
  /\ syGuard
  /\ "solana" \in DOMAIN syCycle.tasks
  /\ syCycle.tasks["solana"] = "circuitOpen"
  /\ syBreakers["solana"].state = "OPEN"
  /\ sySlots["solana"] = 1
  /\ syCycle.contacted = {}


\* -----------------------------------------------------------------
\* Aggregation: further claims
\* -----------------------------------------------------------------

\* the target providers of the call that have no relevant address
WithoutAddresses ==
  { src \in Range(AG_sourcesToFetch(agCall.options)) :
      AG_getRelevantAddresses(src, agCall.options.addresses) = {} }

\* C34: a target provider whose relevant address subset is empty is neither
\* connected to nor fetched from and is not among the portfolio's sources;
\* after a cache-missing call sources holds exactly the providers whose fetch
\* for a non-empty relevant address set succeeded
C34_SourcesAreFetchedProviders ==
  /\ [][ (agCall.phase = "fetching" /\ agCall'.phase # "fetching") =>
           \A src \in WithoutAddresses :
             src \in agConnected' => src \in agConnected ]_vars
  /\ [](( agCall.via = "fetch" /\ agCall.phase \in {"enriching", "done"} ) =>
          agCall.portfolio.sources
            = (Range(AG_sourcesToFetch(agCall.options)) \ agCall.failed)
                \ WithoutAddresses)

\* C35: the in-progress guard is always released: once no orchestrateSync
\* call is in flight (every call has returned or thrown, also when emit threw
\* or a requested provider is not registered) the guard is free, so the next
\* call is admitted and not rejected with 'Sync already in progress'
C35_GuardAlwaysReleased ==
  syCycle = NoCycle => ~Sync_rejects(syGuard)

\* C36: a portfolio saved with save and loaded again with findById has the
\* id, userId, sources, assets and balances and the lastUpdated it had when
\* it was saved, so the cache-freshness check on the loaded portfolio
\* measures the time since the portfolio was last modified
C36_SaveLoadKeepsPortfolio ==
  lsFound.found =>
    LET p == lsFound.portfolio
        d == lsFound.snapshot IN
    /\ p.id = d.id
    /\ p.userId = d.userId
    /\ p.sources = d.sources
    /\ MapValues(p.assets) = d.assets
    /\ p.lastUpdated = Date_fromJSON(d.lastUpdated)

\* C37: addAsset never loses holdings: after addAsset(a) the amount held for
\* a's asset has grown by exactly a's amount and every other held asset is
\* still there with its balance, also when a's id is the id of a different
\* asset that is already held
C37_AddAssetKeepsHoldings ==
  [][ \A a \in AssetPool :
        (pfCall'.op = "addAsset" /\ pfAssets' = Portfolio_addAsset(pfAssets, a)) =>
          /\ HeldTotal(pfAssets') = HeldTotal(pfAssets) + a.amount
          /\ \A i \in 1..Len(pfAssets) :
               ~Asset_isSameAsset(pfAssets[i].val, a) =>
                 \E j \in 1..Len(pfAssets') : pfAssets'[j].val = pfAssets[i].val
    ]_vars

\* C38: reconcile() never fails: any two held assets with the same internal
\* asset key are the same asset by isSameAsset, so no reconcile() call
\* raises 'Cannot merge different assets'
C38_ReconcileNeverFails ==
  /\ \A i, j \in 1..Len(pfAssets) :
       Portfolio_getAssetKey(pfAssets[i].val) = Portfolio_getAssetKey(pfAssets[j].val)
         => Asset_isSameAsset(pfAssets[i].val, pfAssets[j].val)
  /\ ~(pfCall.op = "reconcile" /\ pfCall.ret = "threw")

\* a refreshPortfolio call has handed its result to the caller
Refreshed ==
  /\ rfRequest.call # 0
  /\ rfRequest.call = agCalls
  /\ rfRequest.existing # NoPortfolio
  /\ agCall.phase = "done"

\* C39: refreshPortfolio(id) for a stored portfolio re-aggregates that
\* portfolio: it bypasses the cache, the returned and saved portfolio has the
\* requested id, and when every provider returns the holdings it returned when
\* the portfolio was built the result has the asset keys and balances it had
C39_RefreshReaggregatesSamePortfolio ==
  Refreshed =>
    /\ agCall.via = "fetch"
    /\ agCall.portfolio.id = rfRequest.id
    /\ Repo_findById(agRepo, rfRequest.id) = agCall.portfolio
    /\ agCall.failed = {} =>
         KeyAmounts(MapValues(agCall.portfolio.assets))
           = KeyAmounts(MapValues(rfRequest.existing.assets))

\* the bucket after the refill that opens allowRequest()
Refilled == TB_refillTokens(rlTokens, rlElapsed, rlConfig)

\* a request was admitted in this step
Admission == rlHist' = Append(rlHist, 0)

\* C40: the token count of a TokenBucketRateLimiter stays between 0 and the
\* capacity (burstLimit, or requestsPerMinute when burstLimit is unset); an
\* admission removes exactly one token, a denied request removes none, a
\* refill never raises the count above the capacity, and reset() or
\* updateConfig() sets the count to the (new) capacity
C40_TokensWithinCapacity ==
  /\ [](rlKind = "tokenBucket" =>
          (0 <= rlTokens /\ rlTokens <= RL_maxTokens(rlConfig)))
  /\ [][ /\ Admission => rlTokens' = Refilled.tokens - 1
         /\ (rlCalls' # rlCalls /\ rlLast'.ret \in {"rejected", "waiting"}) =>
              (Refilled.tokens = 0 /\ rlTokens' = rlTokens)
         /\ (rlTokens' < rlTokens) =>
              \/ Admission /\ rlTokens' = rlTokens - 1
              \/ rlCalls' # rlCalls /\ rlLast'.op = "updateConfig"
         /\ (rlTokens' > rlTokens /\ rlConfig' = rlConfig) =>
              rlTokens' <= RL_maxTokens(rlConfig)
         /\ (rlCalls' # rlCalls /\ rlLast'.op \in {"reset", "updateConfig"}) =>
              rlTokens' = RL_maxTokens(rlConfig')
       ]_vars

\* a refill after admissions has filled the bucket up to its capacity and no
\* further, in a bucket whose capacity updateConfig() has lowered
C40_Witness ==
  /\ rlLast.op = "getStats"
  /\ rlHist # <<>>
  /\ rlElapsed = 0
  /\ rlConfig = [requestsPerMinute |-> 4, burstLimit |-> 1]
  /\ rlTokens = 1
  /\ rlCalls = MaxLimiterCalls

====
